---- MODULE Spec2Model ----
(***************************************************************************)
(* Task management backend (Express + PostgreSQL): the users and tasks     *)
(* tables, the validation middlewares, the controllers and the services,   *)
(* as a state machine of concurrently handled requests.  Every await of a  *)
(* pool.query is one atomic step: the pool auto-commits each statement and *)
(* no handler opens a transaction.                                         *)
(***************************************************************************)
EXTENDS Integers, Sequences, FiniteSets, TLC

VARIABLES
    users,       \* users table: id -> row
    tasks,       \* tasks table: id -> row
    nextUserId,  \* users.id SERIAL sequence
    nextTaskId,  \* tasks.id SERIAL sequence
    now,         \* CURRENT_TIMESTAMP of the database server
    logger,      \* the Logger singleton: its requestId and the events it wrote
    req          \* request handlers in flight: handler -> position and locals

vars == <<users, tasks, nextUserId, nextTaskId, now, logger, req>>

(* ------------------------------ bounds --------------------------------- *)

\* Largest id the users sequence hands out.
MaxUsers == 2
\* Largest id the tasks sequence hands out.
MaxTasks == 2
\* Number of requests handled at the same time.
NumProcs == 2
\* Largest value of the database clock.
MaxClock == 1

Procs == 1..NumProcs

(* ------------------------------ values --------------------------------- *)

\* SQL NULL / JS null in an integer column (ids are positive).
NULL == 0
\* SQL NULL in a text column.
NullText == <<"NULL">>
\* SQL NULL in the due_date column.
NullDate == "NULL"

validStatuses == {"todo", "in-progress", "done"}
validPriorities == {"low", "medium", "high"}

(* ------------------------------- text ---------------------------------- *)
\* Strings are sequences of one-character strings.

LowerChar(c) ==
    CASE c = "A" -> "a"
      [] c = "B" -> "b"
      [] c = "X" -> "x"
      [] OTHER -> c

\* String.prototype.toLowerCase
ToLowerCase(s) == [i \in 1..Len(s) |-> LowerChar(s[i])]

RECURSIVE TrimLeft(_)
TrimLeft(s) == IF s # <<>> /\ Head(s) = " " THEN TrimLeft(Tail(s)) ELSE s

RECURSIVE TrimRight(_)
TrimRight(s) ==
    IF s # <<>> /\ s[Len(s)] = " " THEN TrimRight(SubSeq(s, 1, Len(s) - 1)) ELSE s

\* String.prototype.trim
Trim(s) == TrimRight(TrimLeft(s))

Str1(a) == <<a>>
\* The text of n characters c.
Rep(c, n) == [i \in 1..n |-> c]
\* "a@x.y"-shaped addresses
Addr(a) == <<a, "@", "x", ".", "y">>

\* /^[^\s@]+@[^\s@]+\.[^\s@]+$/
emailRegexTest(s) ==
    \E i \in 1..Len(s) : \E j \in 1..Len(s) :
        /\ s[i] = "@"
        /\ s[j] = "."
        /\ 1 < i /\ i + 1 < j /\ j < Len(s)
        /\ \A k \in 1..Len(s) : s[k] # " " /\ (s[k] = "@" => k = i)

(* ---------------------------- HTTP results ----------------------------- *)

Res(code, error) == [code |-> code, error |-> error]

Idle == [pc |-> "idle", op |-> "none"]

Done(op, id, result) == [pc |-> "done", op |-> op, id |-> id, result |-> result]

(* ------------------------------- logger -------------------------------- *)

\* Logger.getInstance() before any request: requestId is null and nothing is
\* written.  The events handlers write are recorded for GET /api/users/:id
\* with the request id middleware (LogSpec); elsewhere the log is left out.
NewLogger == [requestId |-> NULL, logged |-> {}]

(* --------------------------- storage layer ----------------------------- *)

\* tasks.assigned_to REFERENCES users(id): the row may be written.
ForeignKeyOk(assigned_to) == assigned_to = NULL \/ assigned_to \in DOMAIN users

\* The CHECK constraints of tasks.status and tasks.priority.
CheckOk(row) == row.status \in validStatuses /\ row.priority \in validPriorities

\* A foreign key without a referential action on the deleted user's tasks.
OnDeleteNoAction(id) == tasks

\* tasks.assigned_to ... ON DELETE SET NULL: the tasks table after users row id
\* is deleted.
OnDeleteSetNull(id) ==
    [t \in DOMAIN tasks |->
        IF tasks[t].assigned_to = id
        THEN [tasks[t] EXCEPT !.assigned_to = NULL]
        ELSE tasks[t]]

\* The nullifying UPDATE as a DELETE of the user's tasks.
NullifyAssignedDeleting(id) ==
    [t \in {x \in DOMAIN tasks : tasks[x].assigned_to # id} |-> tasks[t]]

\* The nullifying UPDATE without its WHERE clause.
NullifyAssignedAll(id) ==
    [t \in DOMAIN tasks |-> [tasks[t] EXCEPT !.assigned_to = NULL]]

\* UPDATE tasks SET assigned_to = NULL WHERE assigned_to = $1
NullifyAssigned(id) ==
    [t \in DOMAIN tasks |->
        IF tasks[t].assigned_to = id
        THEN [tasks[t] EXCEPT !.assigned_to = NULL]
        ELSE tasks[t]]

\* SELECT COUNT(*) FROM tasks WHERE assigned_to = $1
CountAssigned(id) == Cardinality({t \in DOMAIN tasks : tasks[t].assigned_to = id})

\* An UPDATE that writes every column: those not supplied are emptied.
ApplySetReplacing(row, data) ==
    [k \in DOMAIN row |->
        IF k \in DOMAIN data THEN data[k]
        ELSE IF k \in {"description", "full_name"} THEN <<>>
        ELSE row[k]]

\* UPDATE <table> SET <supplied columns> WHERE id = $n: the row after it.
ApplySet(row, data) ==
    [k \in DOMAIN row |-> IF k \in DOMAIN data THEN data[k] ELSE row[k]]

\* handleDatabaseError without its branch for foreign key violations.
TaskDbErrorNoForeignKey(code) ==
    CASE code = "23505" -> "Task constraint violation"
      [] code = "23502" -> "Required field is missing"
      [] code = "22P02" -> "Invalid data format"
      [] code = "23514" -> "Invalid status or priority value"
      [] OTHER -> "Database operation failed"

\* handleDatabaseError of TaskService: PostgreSQL error code -> message.
TaskDbError(code) ==
    CASE code = "23505" -> "Task constraint violation"
      [] code = "23503" -> "Referenced user does not exist"
      [] code = "23502" -> "Required field is missing"
      [] code = "22P02" -> "Invalid data format"
      [] code = "23514" -> "Invalid status or priority value"
      [] OTHER -> "Database operation failed"

\* The error code PostgreSQL raises for a tasks row, "" when it accepts it.
TaskRowError(row) ==
    IF ~CheckOk(row) THEN "23514"
    ELSE IF ~ForeignKeyOk(row.assigned_to) THEN "23503"
    ELSE ""

(* -------------------------- request bodies ----------------------------- *)
\* A JSON body is a record holding the supplied keys only: a key that is
\* absent reads as undefined.  title and description are texts, status,
\* priority and due_date strings, assigned_to an integer (NULL for null).

Has(body, k) == k \in DOMAIN body

\* !body[k] for a text field
FalsyText(body, k) == ~Has(body, k) \/ body[k] = <<>>
\* !body[k] for a string field
FalsyStr(body, k) == ~Has(body, k) \/ body[k] = ""

\* The due dates the model supplies that are YYYY-MM-DD and a calendar date.
ValidDates == {"2024-01-15", "2024-02-01"}

\* Field checks that leave status and priority to the storage layer.
TaskFieldErrorNoEnums(body) ==
    IF Has(body, "due_date") /\ body.due_date \notin ValidDates
        THEN "Invalid due_date format"
    ELSE IF Has(body, "assigned_to") /\ body.assigned_to # NULL /\ body.assigned_to <= 0
        THEN "Invalid assigned_to"
    ELSE ""

\* The middlewares' field checks shared by create and update (the length
\* limits are far above the lengths of the texts the model supplies).
TaskFieldError(body) ==
    IF Has(body, "status") /\ body.status \notin validStatuses
        THEN "Invalid status"
    ELSE IF Has(body, "priority") /\ body.priority \notin validPriorities
        THEN "Invalid priority"
    ELSE IF Has(body, "due_date") /\ body.due_date \notin ValidDates
        THEN "Invalid due_date format"
    ELSE IF Has(body, "assigned_to") /\ body.assigned_to # NULL /\ body.assigned_to <= 0
        THEN "Invalid assigned_to"
    ELSE ""

\* validateCreateTask: the 400 error, "" when the body passes.
validateCreateTask(body) ==
    IF FalsyText(body, "title") THEN "Missing required fields"
    ELSE IF Trim(body.title) = <<>> THEN "Invalid title"
    ELSE TaskFieldError(body)

\* The update is not refused for want of a field.
SomeTaskField(body) ==
    ~(/\ FalsyText(body, "title")
      /\ FalsyText(body, "description")
      /\ FalsyStr(body, "status")
      /\ FalsyStr(body, "priority")
      /\ FalsyStr(body, "due_date")
      /\ ~Has(body, "assigned_to"))

\* validateUpdateTask: the 400 error, "" when the body passes.
validateUpdateTask(body) ==
    IF ~SomeTaskField(body) THEN "No fields to update"
    ELSE IF Has(body, "title") /\ Trim(body.title) = <<>> THEN "Invalid title"
    ELSE TaskFieldError(body)

\* req.body as the task middlewares leave it: title and description trimmed.
TrimTaskBody(body) ==
    [k \in DOMAIN body |->
        IF k \in {"title", "description"} THEN Trim(body[k]) ELSE body[k]]

\* The row TaskService.createTask inserts.
NewTaskRow(data) ==
    [title       |-> data.title,
     description |-> IF FalsyText(data, "description") THEN NullText ELSE data.description,
     status      |-> IF Has(data, "status") THEN data.status ELSE "todo",
     priority    |-> IF Has(data, "priority") THEN data.priority ELSE "medium",
     due_date    |-> IF FalsyStr(data, "due_date") THEN NullDate ELSE data.due_date,
     assigned_to |-> IF Has(data, "assigned_to") THEN data.assigned_to ELSE NULL,
     created_at  |-> now,
     updated_at  |-> now]

\* TaskController's catch blocks: service error message -> response.
TaskErrorResponse(msg, fallback) ==
    CASE msg = "No fields to update" -> Res(400, "No fields to update")
      [] msg = "Referenced user does not exist" -> Res(400, "Invalid assigned user")
      [] msg = "Invalid status or priority value" -> Res(400, "Invalid status or priority")
      [] OTHER -> Res(500, fallback)

(* ----------------------------- task requests --------------------------- *)

\* POST /api/tasks: validateCreateTask, TaskController.createTask,
\* TaskService.createTask (one INSERT).
CreateTask(r, body) ==
    /\ req[r] = Idle
    /\ LET verr == validateCreateTask(body)
           row  == NewTaskRow(TrimTaskBody(body))
           dberr == TaskRowError(row)
       IN  IF verr # ""
           THEN /\ req' = [req EXCEPT ![r] = Done("createTask", NULL, Res(400, verr))]
                /\ UNCHANGED <<tasks, nextTaskId>>
           ELSE IF dberr # ""
           THEN /\ req' = [req EXCEPT ![r] = Done("createTask", NULL,
                              TaskErrorResponse(TaskDbError(dberr), "Failed to create task"))]
                /\ UNCHANGED <<tasks, nextTaskId>>
           ELSE /\ nextTaskId <= MaxTasks
                /\ tasks' = (nextTaskId :> row) @@ tasks
                /\ nextTaskId' = nextTaskId + 1
                /\ req' = [req EXCEPT ![r] = Done("createTask", nextTaskId, Res(201, ""))]
    /\ UNCHANGED <<users, nextUserId, now, logger>>

\* PUT /api/tasks/:id up to the service's existence check: validateTaskId,
\* validateUpdateTask, TaskController.updateTask, getTaskById.
UpdateTaskBegin(r, id, body) ==
    /\ req[r] = Idle
    /\ LET verr == validateUpdateTask(body)
           data == TrimTaskBody(body)
       IN  req' = [req EXCEPT ![r] =
               IF verr # "" THEN Done("updateTask", id, Res(400, verr))
               ELSE IF ~SomeTaskField(data)
                   THEN Done("updateTask", id, Res(400, "No fields to update"))
               ELSE IF id \notin DOMAIN tasks
                   THEN Done("updateTask", id, Res(404, "Task not found"))
               ELSE [pc |-> "updateTask_update", op |-> "updateTask",
                     id |-> id, data |-> data]]
    /\ UNCHANGED <<users, tasks, nextUserId, nextTaskId, now, logger>>

\* The row the UPDATE of TaskService.updateTask writes over `row`.
UpdatedTaskRow(row, data) == ApplySet(row, data)

\* An updateTask that reads a field of the row its UPDATE returns: with no
\* row returned it throws, and the controller answers 500.
UpdateTaskWriteReadingRow(r) ==
    /\ req[r].pc = "updateTask_update"
    /\ LET id   == req[r].id
           data == req[r].data
       IN  IF DOMAIN data = {}
           THEN /\ req' = [req EXCEPT ![r] =
                       Done("updateTask", id, TaskErrorResponse("No fields to update", ""))]
                /\ UNCHANGED tasks
           ELSE IF id \notin DOMAIN tasks
           THEN /\ req' = [req EXCEPT ![r] = Done("updateTask", id,
                                          TaskErrorResponse("", "Failed to update task"))]
                /\ UNCHANGED tasks
           ELSE LET row   == UpdatedTaskRow(tasks[id], data)
                    dberr == TaskRowError(row)
                IN  IF dberr # ""
                    THEN /\ req' = [req EXCEPT ![r] = Done("updateTask", id,
                               TaskErrorResponse(TaskDbError(dberr), "Failed to update task"))]
                         /\ UNCHANGED tasks
                    ELSE /\ tasks' = [tasks EXCEPT ![id] = row]
                         /\ req' = [req EXCEPT ![r] = Done("updateTask", id, Res(200, ""))]
    /\ UNCHANGED <<users, nextUserId, nextTaskId, now, logger>>

\* TaskService.updateTask from "Build dynamic query" on: the UPDATE.
UpdateTaskWrite(r) ==
    /\ req[r].pc = "updateTask_update"
    /\ LET id   == req[r].id
           data == req[r].data
       IN  IF DOMAIN data = {}
           THEN /\ req' = [req EXCEPT ![r] =
                       Done("updateTask", id, TaskErrorResponse("No fields to update", ""))]
                /\ UNCHANGED tasks
           ELSE IF id \notin DOMAIN tasks
           THEN /\ req' = [req EXCEPT ![r] = Done("updateTask", id, Res(404, "Task not found"))]
                /\ UNCHANGED tasks
           ELSE LET row   == UpdatedTaskRow(tasks[id], data)
                    dberr == TaskRowError(row)
                IN  IF dberr # ""
                    THEN /\ req' = [req EXCEPT ![r] = Done("updateTask", id,
                               TaskErrorResponse(TaskDbError(dberr), "Failed to update task"))]
                         /\ UNCHANGED tasks
                    ELSE /\ tasks' = [tasks EXCEPT ![id] = row]
                         /\ req' = [req EXCEPT ![r] = Done("updateTask", id, Res(200, ""))]
    /\ UNCHANGED <<users, nextUserId, nextTaskId, now, logger>>

\* A deleteTask that does not look at the DELETE's rowCount.
DeleteTaskUnchecked(r, id) ==
    /\ req[r] = Idle
    /\ tasks' = [t \in DOMAIN tasks \ {id} |-> tasks[t]]
    /\ req' = [req EXCEPT ![r] = Done("deleteTask", id, Res(204, ""))]
    /\ UNCHANGED <<users, nextUserId, nextTaskId, now, logger>>

\* DELETE /api/tasks/:id: validateTaskId, TaskController.deleteTask,
\* TaskService.deleteTask (one DELETE).
DeleteTask(r, id) ==
    /\ req[r] = Idle
    /\ IF id \in DOMAIN tasks
       THEN /\ tasks' = [t \in DOMAIN tasks \ {id} |-> tasks[t]]
            /\ req' = [req EXCEPT ![r] = Done("deleteTask", id, Res(204, ""))]
       ELSE /\ req' = [req EXCEPT ![r] = Done("deleteTask", id, Res(404, "Task not found"))]
            /\ UNCHANGED tasks
    /\ UNCHANGED <<users, nextUserId, nextTaskId, now, logger>>

(* ------------------------- DELETE /api/users/:id ----------------------- *)

DeleteUserAt(pc, id, taskCount) ==
    [pc |-> pc, op |-> "deleteUser", id |-> id, taskCount |-> taskCount]

DeleteUserDone(id, taskCount, result) ==
    [pc |-> "done", op |-> "deleteUser", id |-> id, result |-> result,
     taskCount |-> taskCount]

\* validateUserId, UserController.deleteUser, and the existence check of
\* UserService.deleteUser (getUserById).
DeleteUserBegin(r, id) ==
    /\ req[r] = Idle
    /\ req' = [req EXCEPT ![r] =
           IF id \in DOMAIN users
           THEN DeleteUserAt("deleteUser_count", id, 0)
           ELSE DeleteUserDone(id, 0, Res(404, "User not found"))]
    /\ UNCHANGED <<users, tasks, nextUserId, nextTaskId, now, logger>>

\* SELECT COUNT(*) as task_count FROM tasks WHERE assigned_to = $1
DeleteUserCount(r) ==
    /\ req[r].pc = "deleteUser_count"
    /\ LET n == CountAssigned(req[r].id)
       IN  req' = [req EXCEPT ![r] =
               DeleteUserAt(IF n > 0 THEN "deleteUser_nullify" ELSE "deleteUser_delete",
                            req[r].id, n)]
    /\ UNCHANGED <<users, tasks, nextUserId, nextTaskId, now, logger>>

\* if (taskCount > 0): UPDATE tasks SET assigned_to = NULL WHERE assigned_to = $1
DeleteUserNullify(r) ==
    /\ req[r].pc = "deleteUser_nullify"
    /\ tasks' = NullifyAssigned(req[r].id)
    /\ req' = [req EXCEPT ![r] = DeleteUserAt("deleteUser_delete", req[r].id, req[r].taskCount)]
    /\ UNCHANGED <<users, nextUserId, nextTaskId, now, logger>>

\* DELETE FROM users WHERE id = $1 (with the foreign key's referential action).
DeleteUserDelete(r) ==
    /\ req[r].pc = "deleteUser_delete"
    /\ LET id == req[r].id
       IN  IF id \in DOMAIN users
           THEN /\ users' = [u \in DOMAIN users \ {id} |-> users[u]]
                /\ tasks' = OnDeleteSetNull(id)
                /\ req' = [req EXCEPT ![r] = DeleteUserDone(id, req[r].taskCount, Res(204, ""))]
           ELSE /\ req' = [req EXCEPT ![r] =
                       DeleteUserDone(id, req[r].taskCount, Res(404, "User not found"))]
                /\ UNCHANGED <<users, tasks>>
    /\ UNCHANGED <<nextUserId, nextTaskId, now, logger>>

\* The DELETE rejected by the storage layer (connection lost, timeout): the
\* catch block of UserService.deleteUser and of UserController.deleteUser.
DeleteUserDeleteFails(r) ==
    /\ req[r].pc = "deleteUser_delete"
    /\ req' = [req EXCEPT ![r] =
           DeleteUserDone(req[r].id, req[r].taskCount, Res(500, "Failed to delete user"))]
    /\ UNCHANGED <<users, tasks, nextUserId, nextTaskId, now, logger>>

\* res.json / res.send: the response leaves and the handler is free again.
Respond(r) ==
    /\ req[r].pc = "done"
    /\ req' = [req EXCEPT ![r] = Idle]
    /\ UNCHANGED <<users, tasks, nextUserId, nextTaskId, now, logger>>

(* ------------------- tasks and the users they refer to ----------------- *)

UserRow(username, email, full_name) ==
    [username |-> username, email |-> email, full_name |-> full_name,
     created_at |-> 0, updated_at |-> 0]

\* The users table as the seed script (or MaxUsers earlier POST /api/users)
\* leaves it: ids 1..MaxUsers with pairwise distinct usernames and emails.
SeededUsers ==
    [i \in 1..MaxUsers |->
        UserRow(Rep("u", i), Rep("u", i) \o Addr("u"), Rep("U", i))]

Init ==
    /\ users = SeededUsers
    /\ tasks = <<>>
    /\ nextUserId = MaxUsers + 1
    /\ nextTaskId = 1
    /\ now = 0
    /\ logger = NewLogger
    /\ req = [r \in Procs |-> Idle]

TaskIds == 1..MaxTasks
UserIds == 1..MaxUsers

\* POST /api/tasks bodies: a title, with or without an assignee, or with a
\* status or a priority outside the enumeration.
CreateTaskBodies ==
    {[title |-> Str1("t")]}
        \cup {[title |-> Str1("t"), assigned_to |-> u] : u \in UserIds}
        \cup {[title |-> Str1("t"), status |-> "closed"],
              [title |-> Str1("t"), priority |-> "urgent"]}

\* PUT /api/tasks/:id bodies: a new status or a new assignee (null included),
\* or a status or a priority outside the enumeration.
UpdateTaskBodies ==
    {[status |-> s] : s \in validStatuses}
        \cup {[assigned_to |-> u] : u \in UserIds \cup {NULL}}
        \cup {[status |-> "closed"], [priority |-> "urgent"]}

Next ==
    \E r \in Procs :
        \/ \E body \in CreateTaskBodies : CreateTask(r, body)
        \/ \E id \in TaskIds, body \in UpdateTaskBodies : UpdateTaskBegin(r, id, body)
        \/ UpdateTaskWrite(r)
        \/ \E id \in TaskIds : DeleteTask(r, id)
        \/ \E id \in UserIds : DeleteUserBegin(r, id)
        \/ DeleteUserCount(r)
        \/ DeleteUserNullify(r)
        \/ DeleteUserDelete(r)
        \/ DeleteUserDeleteFails(r)
        \/ Respond(r)

Spec == Init /\ [][Next]_vars

(* --------------------------- user requests ----------------------------- *)

\* validateCreateUser: the 400 error, "" when the body passes.
validateCreateUser(body) ==
    IF FalsyText(body, "username") \/ FalsyText(body, "email") \/ FalsyText(body, "full_name")
        THEN "Missing required fields"
    ELSE IF Trim(body.username) = <<>> THEN "Invalid username"
    ELSE IF ~emailRegexTest(Trim(body.email)) THEN "Invalid email format"
    ELSE IF Trim(body.full_name) = <<>> THEN "Invalid full_name"
    ELSE ""

\* The update is not refused for want of a field.
SomeUserField(body) ==
    ~(FalsyText(body, "username") /\ FalsyText(body, "email") /\ FalsyText(body, "full_name"))

\* validateUpdateUser: the 400 error, "" when the body passes.
validateUpdateUser(body) ==
    IF ~SomeUserField(body) THEN "No fields to update"
    ELSE IF Has(body, "username") /\ Trim(body.username) = <<>> THEN "Invalid username"
    ELSE IF Has(body, "email") /\ ~emailRegexTest(Trim(body.email)) THEN "Invalid email format"
    ELSE IF Has(body, "full_name") /\ Trim(body.full_name) = <<>> THEN "Invalid full_name"
    ELSE ""

\* The user middlewares without the toLowerCase of the email.
TrimUserBody(body) == [k \in DOMAIN body |-> Trim(body[k])]

\* req.body as the user middlewares leave it: every field trimmed, the email
\* in lower case.
NormalizeUserBody(body) ==
    [k \in DOMAIN body |->
        IF k = "email" THEN ToLowerCase(Trim(body[k])) ELSE Trim(body[k])]

\* SELECT * FROM users WHERE username = $1 finds a row.
getUserByUsername(username) == \E u \in DOMAIN users : users[u].username = username

\* SELECT * FROM users WHERE email = $1 finds a row.
getUserByEmail(email) == \E u \in DOMAIN users : users[u].email = email

\* A users table that checks neither UNIQUE constraint.
NoUniqueViolation(row, id) == ""

\* UNIQUE constraints that compare the written row with every stored row,
\* the one it replaces included.
UniqueViolationAnyRow(row, id) ==
    IF \E u \in DOMAIN users : users[u].username = row.username
        THEN "users_username_key"
    ELSE IF \E u \in DOMAIN users : users[u].email = row.email
        THEN "users_email_key"
    ELSE ""

\* The UNIQUE constraint a users row (written at id) violates among the other
\* rows, "" when none: users_username_key is checked before users_email_key.
UniqueViolation(row, id) ==
    IF \E u \in DOMAIN users \ {id} : users[u].username = row.username
        THEN "users_username_key"
    ELSE IF \E u \in DOMAIN users \ {id} : users[u].email = row.email
        THEN "users_email_key"
    ELSE ""

\* handleDatabaseError with every unique violation reported as a generic error.
UserDbErrorGeneric(code, constraint) == "Database operation failed"

\* handleDatabaseError of UserService: PostgreSQL error -> message.
UserDbError(code, constraint) ==
    IF code = "23505" /\ constraint = "users_username_key" THEN "Username already exists"
    ELSE IF code = "23505" /\ constraint = "users_email_key" THEN "Email already exists"
    ELSE IF code = "23503" THEN "Referenced user does not exist"
    ELSE IF code = "23502" THEN "Required field is missing"
    ELSE IF code = "22P02" THEN "Invalid data format"
    ELSE "Database operation failed"

\* UserController's catch blocks: service error message -> response.
UserErrorResponse(msg, fallback) ==
    CASE msg = "Username already exists" -> Res(409, "Username already exists")
      [] msg = "Email already exists" -> Res(409, "Email already exists")
      [] msg = "No fields to update" -> Res(400, "No fields to update")
      [] OTHER -> Res(500, fallback)

\* A finished user request; log is the action of the service's last log event.
UserDone(op, id, result, log) ==
    [pc |-> "done", op |-> op, id |-> id, result |-> result, log |-> log]

\* The body of the request handler r is serving, as its middleware left it.
Data(r) == NormalizeUserBody(req[r].body)

\* POST /api/users: validateCreateUser and UserController.createUser, up to
\* the first query of UserService.createUser.
CreateUserAccept(r, body) ==
    /\ req[r] = Idle
    /\ req' = [req EXCEPT ![r] =
           IF validateCreateUser(body) # ""
           THEN UserDone("createUser", NULL, Res(400, validateCreateUser(body)), "validation_error")
           ELSE [pc |-> "createUser_username", op |-> "createUser", body |-> body]]
    /\ UNCHANGED <<users, tasks, nextUserId, nextTaskId, now, logger>>

\* "Check if username already exists": getUserByUsername.
CreateUserUsername(r) ==
    /\ req[r].pc = "createUser_username"
    /\ req' = [req EXCEPT ![r] =
           IF getUserByUsername(Data(r).username)
           THEN UserDone("createUser", NULL,
                    UserErrorResponse("Username already exists", "Failed to create user"),
                    "create_user_validation_error")
           ELSE [req[r] EXCEPT !.pc = "createUser_email"]]
    /\ UNCHANGED <<users, tasks, nextUserId, nextTaskId, now, logger>>

\* "Check if email already exists": getUserByEmail.
CreateUserEmail(r) ==
    /\ req[r].pc = "createUser_email"
    /\ req' = [req EXCEPT ![r] =
           IF getUserByEmail(Data(r).email)
           THEN UserDone("createUser", NULL,
                    UserErrorResponse("Email already exists", "Failed to create user"),
                    "create_user_validation_error")
           ELSE [req[r] EXCEPT !.pc = "createUser_insert"]]
    /\ UNCHANGED <<users, tasks, nextUserId, nextTaskId, now, logger>>

\* INSERT INTO users (username, email, full_name) VALUES ($1, $2, $3)
CreateUserInsert(r) ==
    /\ req[r].pc = "createUser_insert"
    /\ LET d   == Data(r)
           row == [username |-> d.username, email |-> d.email, full_name |-> d.full_name,
                   created_at |-> now, updated_at |-> now]
           violated == UniqueViolation(row, NULL)
       IN  IF violated # ""
           THEN /\ req' = [req EXCEPT ![r] = UserDone("createUser", NULL,
                              UserErrorResponse(UserDbError("23505", violated),
                                                "Failed to create user"),
                              "database_error")]
                /\ UNCHANGED <<users, nextUserId>>
           ELSE /\ nextUserId <= MaxUsers
                /\ users' = (nextUserId :> row) @@ users
                /\ nextUserId' = nextUserId + 1
                /\ req' = [req EXCEPT ![r] =
                       UserDone("createUser", nextUserId, Res(201, ""), "create_user")]
    /\ UNCHANGED <<tasks, nextTaskId, now, logger>>

\* PUT /api/users/:id: validateUserId, validateUpdateUser and
\* UserController.updateUser, up to the first query of UserService.updateUser.
UpdateUserAccept(r, id, body) ==
    /\ req[r] = Idle
    /\ req' = [req EXCEPT ![r] =
           IF validateUpdateUser(body) # ""
           THEN UserDone("updateUser", id, Res(400, validateUpdateUser(body)), "validation_error")
           ELSE IF ~SomeUserField(NormalizeUserBody(body))
           THEN UserDone("updateUser", id, Res(400, "No fields to update"),
                         "update_user_validation_error")
           ELSE [pc |-> "updateUser_get", op |-> "updateUser", id |-> id, body |-> body]]
    /\ UNCHANGED <<users, tasks, nextUserId, nextTaskId, now, logger>>

\* updateUser asks for the username whatever the user's own username is.
UsernameCheckedAlways(data, existingUser) == ~FalsyText(data, "username")

\* "Check for username conflicts if username is being updated"
UsernameChecked(data, existingUser) ==
    ~FalsyText(data, "username") /\ data.username # existingUser.username

\* "Check for email conflicts if email is being updated"
EmailChecked(data, existingUser) ==
    ~FalsyText(data, "email") /\ data.email # existingUser.email

\* The query updateUser awaits next, once it has read existingUser and, with
\* usernameDone, made its username check.
NextUpdateUserQuery(data, existingUser, usernameDone) ==
    IF ~usernameDone /\ UsernameChecked(data, existingUser) THEN "updateUser_username"
    ELSE IF EmailChecked(data, existingUser) THEN "updateUser_email"
    ELSE "updateUser_update"

\* Handler r at its next query; existingUser is kept while it is still read.
UpdateUserAt(r, existingUser, usernameDone) ==
    LET pc == NextUpdateUserQuery(Data(r), existingUser, usernameDone)
        at == [pc |-> pc, op |-> "updateUser", id |-> req[r].id, body |-> req[r].body]
    IN  IF pc = "updateUser_username"
        THEN at @@ [existingUser |-> existingUser]
        ELSE at

\* "Check if user exists": getUserById.
UpdateUserGet(r) ==
    /\ req[r].pc = "updateUser_get"
    /\ req' = [req EXCEPT ![r] =
           IF req[r].id \in DOMAIN users
           THEN UpdateUserAt(r, users[req[r].id], FALSE)
           ELSE UserDone("updateUser", req[r].id, Res(404, "User not found"),
                         "update_user_not_found")]
    /\ UNCHANGED <<users, tasks, nextUserId, nextTaskId, now, logger>>

\* getUserByUsername(userData.username)
UpdateUserUsername(r) ==
    /\ req[r].pc = "updateUser_username"
    /\ req' = [req EXCEPT ![r] =
           IF getUserByUsername(Data(r).username)
           THEN UserDone("updateUser", req[r].id,
                    UserErrorResponse("Username already exists", "Failed to update user"),
                    "update_user_validation_error")
           ELSE UpdateUserAt(r, req[r].existingUser, TRUE)]
    /\ UNCHANGED <<users, tasks, nextUserId, nextTaskId, now, logger>>

\* getUserByEmail(userData.email)
UpdateUserEmail(r) ==
    /\ req[r].pc = "updateUser_email"
    /\ req' = [req EXCEPT ![r] =
           IF getUserByEmail(Data(r).email)
           THEN UserDone("updateUser", req[r].id,
                    UserErrorResponse("Email already exists", "Failed to update user"),
                    "update_user_validation_error")
           ELSE [req[r] EXCEPT !.pc = "updateUser_update"]]
    /\ UNCHANGED <<users, tasks, nextUserId, nextTaskId, now, logger>>

\* UserService.updateUser from "Build dynamic query" on: the UPDATE.
UpdateUserWrite(r) ==
    /\ req[r].pc = "updateUser_update"
    /\ LET id == req[r].id
           d  == Data(r)
       IN  IF DOMAIN d = {}
           THEN /\ req' = [req EXCEPT ![r] = UserDone("updateUser", id,
                              UserErrorResponse("No fields to update", ""),
                              "update_user_no_fields")]
                /\ UNCHANGED users
           ELSE IF id \notin DOMAIN users
           THEN /\ req' = [req EXCEPT ![r] = UserDone("updateUser", id,
                              Res(404, "User not found"), "update_user")]
                /\ UNCHANGED users
           ELSE LET row == ApplySet(users[id], d)
                    violated == UniqueViolation(row, id)
                IN  IF violated # ""
                    THEN /\ req' = [req EXCEPT ![r] = UserDone("updateUser", id,
                                       UserErrorResponse(UserDbError("23505", violated),
                                                         "Failed to update user"),
                                       "database_error")]
                         /\ UNCHANGED users
                    ELSE /\ users' = [users EXCEPT ![id] = row]
                         /\ req' = [req EXCEPT ![r] =
                                UserDone("updateUser", id, Res(200, ""), "update_user")]
    /\ UNCHANGED <<tasks, nextUserId, nextTaskId, now, logger>>

\* The users service on an empty database.
InitUsers ==
    /\ users = <<>>
    /\ tasks = <<>>
    /\ nextUserId = 1
    /\ nextTaskId = 1
    /\ now = 0
    /\ logger = NewLogger
    /\ req = [r \in Procs |-> Idle]

Usernames == {Str1("a"), Str1("b"), Str1("A")}
Emails == {Addr("a"), Addr("b"), Addr("A")}
FullNames == {Str1("n")}

CreateUserBodies ==
    {[username |-> u, email |-> e, full_name |-> n] :
        u \in Usernames, e \in Emails, n \in FullNames}

UpdateUserBodies ==
    {[username |-> u] : u \in Usernames}
        \cup {[email |-> e] : e \in Emails}
        \cup {[username |-> u, email |-> e] : u \in Usernames, e \in Emails}
        \cup {[full_name |-> n] : n \in FullNames}

NextUsers ==
    \E r \in Procs :
        \/ \E body \in CreateUserBodies : CreateUserAccept(r, body)
        \/ CreateUserUsername(r)
        \/ CreateUserEmail(r)
        \/ CreateUserInsert(r)
        \/ \E id \in UserIds, body \in UpdateUserBodies : UpdateUserAccept(r, id, body)
        \/ UpdateUserGet(r)
        \/ UpdateUserUsername(r)
        \/ UpdateUserEmail(r)
        \/ UpdateUserWrite(r)
        \/ Respond(r)

UserSpec == InitUsers /\ [][NextUsers]_vars

(* ---------------------------- GET /api/tasks -------------------------- *)
\* req.query is a record holding the supplied parameters only.  status,
\* priority, sortBy and sortOrder are strings; assignedTo, limit, offset and
\* search are texts.

\* A JS number: NaN, or the integer n.
NaN == [nan |-> TRUE, n |-> 0]
Num(n) == [nan |-> FALSE, n |-> n]

Digits == {"0", "1", "2", "3", "4", "5", "6", "7", "8", "9"}

DigitValue(c) ==
    CASE c = "0" -> 0 [] c = "1" -> 1 [] c = "2" -> 2 [] c = "3" -> 3 [] c = "4" -> 4
      [] c = "5" -> 5 [] c = "6" -> 6 [] c = "7" -> 7 [] c = "8" -> 8 [] c = "9" -> 9

RECURSIVE LeadingDigits(_)
LeadingDigits(s) ==
    IF s # <<>> /\ Head(s) \in Digits THEN <<Head(s)>> \o LeadingDigits(Tail(s)) ELSE <<>>

RECURSIVE DecimalValue(_)
DecimalValue(ds) ==
    IF ds = <<>> THEN 0
    ELSE 10 * DecimalValue(SubSeq(ds, 1, Len(ds) - 1)) + DigitValue(ds[Len(ds)])

\* parseInt(s) in radix 10: leading blanks, a sign, the longest run of digits;
\* NaN when there is no digit.
parseInt(s) ==
    LET t   == TrimLeft(s)
        neg == t # <<>> /\ Head(t) = "-"
        u   == IF t # <<>> /\ Head(t) \in {"-", "+"} THEN Tail(t) ELSE t
        ds  == LeadingDigits(u)
    IN  IF ds = <<>> THEN NaN
        ELSE Num(IF neg THEN 0 - DecimalValue(ds) ELSE DecimalValue(ds))

\* The text "unassigned".
Unassigned == <<"u", "n", "a", "s", "s", "i", "g", "n", "e", "d">>

\* The truthiness of a JS number.
Truthy(x) == ~x.nan /\ x.n # 0

\* TaskController.getAllTasks: req.query -> queryParams, before validation.
\* limit and offset are parsed when the parameter is a non-empty text.
QueryParams(query) ==
    [k \in {x \in DOMAIN query : x \in {"limit", "offset"} => query[x] # <<>>} |->
        IF k \in {"limit", "offset"} THEN parseInt(query[k]) ELSE query[k]]

\* TaskController.getAllTasks: the 400 error of the parameter checks, "" when
\* the parameters pass.
ValidateQueryParams(queryParams) ==
    IF /\ Has(queryParams, "assignedTo")
       /\ queryParams.assignedTo # Unassigned
       /\ parseInt(queryParams.assignedTo).nan
        THEN "Invalid assignedTo parameter"
    ELSE IF /\ Has(queryParams, "limit")
            /\ ~queryParams.limit.nan
            /\ (queryParams.limit.n < 1 \/ queryParams.limit.n > 100)
        THEN "Invalid limit parameter"
    ELSE IF Has(queryParams, "offset") /\ ~queryParams.offset.nan /\ queryParams.offset.n < 0
        THEN "Invalid offset parameter"
    ELSE ""

\* s LIKE p: % matches any run of characters, _ any one character.
RECURSIVE Like(_, _)
Like(s, p) ==
    IF p = <<>> THEN s = <<>>
    ELSE IF Head(p) = "%"
        THEN Like(s, Tail(p)) \/ (s # <<>> /\ Like(Tail(s), p))
    ELSE /\ s # <<>>
         /\ Head(p) = "_" \/ Head(p) = Head(s)
         /\ Like(Tail(s), Tail(p))

\* column ILIKE pattern; a NULL column matches nothing.
ILike(column, pattern) ==
    column # NullText /\ Like(ToLowerCase(column), ToLowerCase(pattern))

\* A WHERE clause that compares the columns with the search text itself
\* whenever the parameter is present.
MatchesSearchUnwrapped(row, filters) ==
    /\ ~FalsyStr(filters, "status") => row.status = filters.status
    /\ ~FalsyStr(filters, "priority") => row.priority = filters.priority
    /\ Has(filters, "assignedTo") =>
        IF filters.assignedTo = Unassigned
        THEN row.assigned_to = NULL
        ELSE /\ row.assigned_to # NULL
             /\ Num(row.assigned_to) = parseInt(filters.assignedTo)
    /\ Has(filters, "search") =>
        ILike(row.title, filters.search) \/ ILike(row.description, filters.search)

\* buildWhereClause: the row satisfies the WHERE clause built from filters.
Matches(row, filters) ==
    /\ ~FalsyStr(filters, "status") => row.status = filters.status
    /\ ~FalsyStr(filters, "priority") => row.priority = filters.priority
    /\ Has(filters, "assignedTo") =>
        IF filters.assignedTo = Unassigned
        THEN row.assigned_to = NULL
        ELSE /\ row.assigned_to # NULL
             /\ Num(row.assigned_to) = parseInt(filters.assignedTo)
    /\ ~FalsyText(filters, "search") =>
        \/ ILike(row.title, <<"%">> \o filters.search \o <<"%">>)
        \/ ILike(row.description, <<"%">> \o filters.search \o <<"%">>)

validSortFields == {"created_at", "updated_at", "due_date", "title", "priority"}

\* buildOrderClause: the column and the direction of ORDER BY.
OrderField(queryParams) ==
    IF Has(queryParams, "sortBy") /\ queryParams.sortBy \in validSortFields
    THEN queryParams.sortBy
    ELSE "created_at"

\* A direction that is ascending unless "desc" is asked for.
OrderAscUnlessDesc(queryParams) ==
    ~(Has(queryParams, "sortOrder") /\ queryParams.sortOrder = "desc")

OrderAsc(queryParams) == Has(queryParams, "sortOrder") /\ queryParams.sortOrder = "asc"

\* The place of a character in the collation of the titles the model uses.
CharRank(c) ==
    CASE c = " " -> 0 [] c = "%" -> 1 [] c = "_" -> 2
      [] c = "a" -> 3 [] c = "A" -> 4 [] c = "b" -> 5 [] c = "B" -> 6
      [] c = "t" -> 7 [] c = "x" -> 8 [] c = "X" -> 9
      [] OTHER -> 10

RECURSIVE TextLess(_, _)
TextLess(s, t) ==
    IF t = <<>> THEN FALSE
    ELSE IF s = <<>> THEN TRUE
    ELSE IF Head(s) = Head(t) THEN TextLess(Tail(s), Tail(t))
    ELSE CharRank(Head(s)) < CharRank(Head(t))

\* The place of a due date among the due dates; NULL sorts as the largest.
DateRank(d) ==
    CASE d = "2024-01-15" -> 1
      [] d = "2024-02-01" -> 2
      [] OTHER -> 3

\* priority is VARCHAR: it sorts as text.
PriorityRank(p) ==
    CASE p = "high" -> 1
      [] p = "low" -> 2
      [] OTHER -> 3

\* Row a sorts strictly before row b in ORDER BY field ASC.
SortsBefore(a, b, field) ==
    CASE field = "created_at" -> a.created_at < b.created_at
      [] field = "updated_at" -> a.updated_at < b.updated_at
      [] field = "due_date" -> DateRank(a.due_date) < DateRank(b.due_date)
      [] field = "title" -> TextLess(a.title, b.title)
      [] field = "priority" -> PriorityRank(a.priority) < PriorityRank(b.priority)

\* The orders in which SELECT ... WHERE ... ORDER BY may return the matching
\* ids: rows that tie on the column come in any order.
Orderings(queryParams) ==
    LET ids   == {t \in DOMAIN tasks : Matches(tasks[t], queryParams)}
        field == OrderField(queryParams)
    IN  {o \in [1..Cardinality(ids) -> ids] :
            /\ \A i \in DOMAIN o : \A j \in DOMAIN o : i # j => o[i] # o[j]
            /\ \A i \in DOMAIN o : \A j \in DOMAIN o : i < j =>
                IF OrderAsc(queryParams)
                THEN ~SortsBefore(tasks[o[j]], tasks[o[i]], field)
                ELSE ~SortsBefore(tasks[o[i]], tasks[o[j]], field)}

Min(a, b) == IF a < b THEN a ELSE b

\* buildPaginationClause: the clause has a LIMIT.
HasLimitClause(queryParams) ==
    /\ Has(queryParams, "limit")
    /\ Truthy(queryParams.limit)
    /\ queryParams.limit.n > 0

\* buildPaginationClause: the value of the LIMIT.
LimitClause(queryParams) == Min(queryParams.limit.n, 100)

\* A pagination clause without OFFSET.
PaginateFromStart(o, queryParams) ==
    SubSeq(o, 1, IF HasLimitClause(queryParams)
                 THEN Min(Len(o), LimitClause(queryParams))
                 ELSE Len(o))

\* buildPaginationClause: the rows LIMIT and OFFSET keep of an ordered result.
Paginate(o, queryParams) ==
    LET off  == IF /\ Has(queryParams, "offset")
                   /\ Truthy(queryParams.offset)
                   /\ queryParams.offset.n >= 0
                THEN queryParams.offset.n ELSE 0
        last == IF HasLimitClause(queryParams)
                THEN Min(Len(o), off + LimitClause(queryParams))
                ELSE Len(o)
    IN  SubSeq(o, off + 1, last)

\* A row of the main query (tasks LEFT JOIN users) as getAllTasks maps it;
\* assigned_user is the empty sequence for null.
TaskWithUser(id) ==
    [k \in DOMAIN tasks[id] \cup {"id", "assigned_user"} |->
        CASE k = "id" -> id
          [] k = "assigned_user" ->
                IF tasks[id].assigned_to \in DOMAIN users
                THEN <<[id        |-> tasks[id].assigned_to,
                        username  |-> users[tasks[id].assigned_to].username,
                        email     |-> users[tasks[id].assigned_to].email,
                        full_name |-> users[tasks[id].assigned_to].full_name]>>
                ELSE <<>>
          [] OTHER -> tasks[id][k]]

\* SELECT COUNT(*) as total FROM tasks t WHERE ...
CountMatching(queryParams) ==
    Cardinality({t \in DOMAIN tasks : Matches(tasks[t], queryParams)})

\* The response body TaskController.getAllTasks sends with status 200.
ListResponse(rows, total, queryParams) ==
    LET offset == IF Has(queryParams, "offset") /\ Truthy(queryParams.offset)
                  THEN queryParams.offset.n ELSE 0
    IN  [tasks |-> rows,
         pagination |->
            [k \in {"total", "count", "offset", "hasMore"}
                    \cup (DOMAIN queryParams \cap {"limit"}) |->
                CASE k = "total" -> total
                  [] k = "count" -> Len(rows)
                  [] k = "offset" -> offset
                  [] k = "limit" -> queryParams.limit
                  [] k = "hasMore" ->
                        IF Has(queryParams, "limit") /\ Truthy(queryParams.limit)
                        THEN offset + Len(rows) < total
                        ELSE FALSE]]

ListDone(queryParams, result, body) ==
    [pc |-> "done", op |-> "getAllTasks", id |-> NULL, result |-> result,
     queryParams |-> queryParams, body |-> body]

\* getAllTasks waiting for the queries of Promise.all named in pending.
ListAt(queryParams, pending, rows, total) ==
    [pc |-> "getAllTasks_queries", op |-> "getAllTasks", queryParams |-> queryParams,
     pending |-> pending, rows |-> rows, total |-> total]

\* After a query of Promise.all resolved: wait for the other one, or map the
\* results and send the response.
ListAfter(queryParams, pending, rows, total) ==
    IF pending # {}
    THEN ListAt(queryParams, pending, rows, total)
    ELSE ListDone(queryParams, Res(200, ""), ListResponse(rows, total, queryParams))

\* GET /api/tasks: TaskController.getAllTasks up to the call of the service,
\* and TaskService.getAllTasks up to Promise.all, which sends both queries.
GetAllTasksBegin(r, query) ==
    /\ req[r] = Idle
    /\ LET queryParams == QueryParams(query)
           verr == ValidateQueryParams(queryParams)
       IN  req' = [req EXCEPT ![r] =
               IF verr # ""
               THEN ListDone(queryParams, Res(400, verr), [error |-> verr])
               ELSE ListAt(queryParams, {"main", "count"}, <<>>, 0)]
    /\ UNCHANGED <<users, tasks, nextUserId, nextTaskId, now, logger>>

\* The main query of getAllTasks resolves.
GetAllTasksMain(r) ==
    /\ req[r].pc = "getAllTasks_queries"
    /\ "main" \in req[r].pending
    /\ \E o \in Orderings(req[r].queryParams) :
        LET ids  == Paginate(o, req[r].queryParams)
            rows == [i \in DOMAIN ids |-> TaskWithUser(ids[i])]
        IN  req' = [req EXCEPT ![r] =
                ListAfter(req[r].queryParams, req[r].pending \ {"main"}, rows, req[r].total)]
    /\ UNCHANGED <<users, tasks, nextUserId, nextTaskId, now, logger>>

\* The count query of getAllTasks resolves.
GetAllTasksCount(r) ==
    /\ req[r].pc = "getAllTasks_queries"
    /\ "count" \in req[r].pending
    /\ req' = [req EXCEPT ![r] =
           ListAfter(req[r].queryParams, req[r].pending \ {"count"}, req[r].rows,
                     CountMatching(req[r].queryParams))]
    /\ UNCHANGED <<users, tasks, nextUserId, nextTaskId, now, logger>>

\* Rows of the tasks table as earlier requests (or the seed script) left them.
ListRows ==
    {[title |-> <<"a">>, description |-> NullText, status |-> "todo",
      priority |-> "high", due_date |-> NullDate, assigned_to |-> NULL,
      created_at |-> 0, updated_at |-> 0],
     [title |-> <<"A", "b">>, description |-> <<"x">>, status |-> "done",
      priority |-> "low", due_date |-> "2024-01-15", assigned_to |-> 1,
      created_at |-> MaxClock, updated_at |-> MaxClock],
     [title |-> <<"b">>, description |-> <<"a">>, status |-> "in-progress",
      priority |-> "medium", due_date |-> "2024-02-01", assigned_to |-> 2,
      created_at |-> 0, updated_at |-> 0],
     [title |-> <<"t">>, description |-> NullText, status |-> "todo",
      priority |-> "medium", due_date |-> NullDate, assigned_to |-> 1,
      created_at |-> MaxClock, updated_at |-> MaxClock]}

\* The database GET /api/tasks is served from: the seeded users and up to
\* MaxTasks tasks.
InitList ==
    /\ users = SeededUsers
    /\ \E n \in 0..MaxTasks : tasks \in [1..n -> ListRows]
    /\ nextUserId = MaxUsers + 1
    /\ nextTaskId = Len(tasks) + 1
    /\ now = MaxClock
    /\ logger = NewLogger
    /\ req = [r \in Procs |-> Idle]

\* The query strings of GET /api/tasks.
ListQueries ==
    {[x \in {} |-> ""],
     [status |-> "todo"], [status |-> "done"], [status |-> "closed"],
     [priority |-> "high"],
     [assignedTo |-> Unassigned], [assignedTo |-> <<"1">>], [assignedTo |-> <<"x">>],
     [assignedTo |-> <<"1", "x">>],
     [search |-> <<"a">>], [status |-> "todo", search |-> <<"a">>],
     [search |-> <<"_">>],
     [search |-> <<>>], [status |-> "todo", search |-> <<>>],
     [search |-> <<>>, limit |-> <<"1">>],
     [status |-> "done", assignedTo |-> <<"1">>],
     [sortBy |-> "title", sortOrder |-> "asc"], [sortBy |-> "status"],
     [sortOrder |-> "up"], [sortBy |-> "status", sortOrder |-> "asc"],
     [limit |-> <<"1">>], [limit |-> <<"1">>, offset |-> <<"1">>],
     [limit |-> <<"0">>], [limit |-> <<"x">>], [offset |-> <<"-", "1">>],
     [offset |-> <<"2">>]}

NextList ==
    \E r \in Procs :
        \/ \E query \in ListQueries : GetAllTasksBegin(r, query)
        \/ GetAllTasksMain(r)
        \/ GetAllTasksCount(r)
        \/ \E id \in TaskIds : DeleteTask(r, id)
        \/ Respond(r)

ListSpec == InitList /\ [][NextList]_vars

(* ------------------------- PUT on tasks and users ---------------------- *)

\* Rows of the tasks table every column of which holds a value.
PutRows == {row \in ListRows : row.description # NullText /\ row.due_date # NullDate}

\* The database partial updates are served from: the seeded users and
\* MaxTasks tasks.
InitUpdate ==
    /\ users = SeededUsers
    /\ tasks \in [1..MaxTasks -> PutRows]
    /\ nextUserId = MaxUsers + 1
    /\ nextTaskId = MaxTasks + 1
    /\ now = MaxClock
    /\ logger = NewLogger
    /\ req = [r \in Procs |-> Idle]

\* The JSON body {}.
EmptyBody == [k \in {} |-> <<>>]

\* PUT /api/tasks/:id bodies: one field, two fields, an empty or blank
\* description alone, no field.
PutTaskBodies ==
    {[title |-> <<"b">>],
     [status |-> "done", assigned_to |-> NULL],
     [description |-> <<>>],
     [description |-> <<" ">>],
     EmptyBody}

\* PUT /api/users/:id bodies: one field, two fields, an empty full_name
\* alone, no field.
PutUserBodies ==
    {[full_name |-> <<"n">>],
     [username |-> <<"a">>, email |-> Addr("A")],
     [full_name |-> <<>>],
     EmptyBody}

NextUpdate ==
    \E r \in Procs :
        \/ \E id \in TaskIds, body \in PutTaskBodies : UpdateTaskBegin(r, id, body)
        \/ UpdateTaskWrite(r)
        \/ \E id \in UserIds, body \in PutUserBodies : UpdateUserAccept(r, id, body)
        \/ UpdateUserGet(r)
        \/ UpdateUserUsername(r)
        \/ UpdateUserEmail(r)
        \/ UpdateUserWrite(r)
        \/ Respond(r)

UpdateSpec == InitUpdate /\ [][NextUpdate]_vars

(* ------------------- one row: get, update and delete ------------------- *)

\* GET /api/tasks/:id: validateTaskId, TaskController.getTaskById,
\* TaskService.getTaskById (one SELECT).
GetTaskById(r, id) ==
    /\ req[r] = Idle
    /\ req' = [req EXCEPT ![r] = Done("getTaskById", id,
                   IF id \in DOMAIN tasks THEN Res(200, "") ELSE Res(404, "Task not found"))]
    /\ UNCHANGED <<users, tasks, nextUserId, nextTaskId, now, logger>>

\* GET /api/users/:id: validateUserId, UserController.getUserById,
\* UserService.getUserById (one SELECT).
GetUserById(r, id) ==
    /\ req[r] = Idle
    /\ req' = [req EXCEPT ![r] =
           IF id \in DOMAIN users
           THEN UserDone("getUserById", id, Res(200, ""), "get_user_by_id_success")
           ELSE UserDone("getUserById", id, Res(404, "User not found"),
                         "get_user_by_id_not_found")]
    /\ UNCHANGED <<users, tasks, nextUserId, nextTaskId, now, logger>>

\* The database the requests on one row are served from: the seeded users,
\* and MaxTasks tasks, task i assigned to user i.
InitById ==
    /\ users = SeededUsers
    /\ tasks = [i \in 1..MaxTasks |->
                  [title |-> <<"t">>, description |-> <<"x">>, status |-> "todo",
                   priority |-> "medium", due_date |-> "2024-01-15",
                   assigned_to |-> IF i <= MaxUsers THEN i ELSE NULL,
                   created_at |-> 0, updated_at |-> 0]]
    /\ nextUserId = MaxUsers + 1
    /\ nextTaskId = MaxTasks + 1
    /\ now = MaxClock
    /\ logger = NewLogger
    /\ req = [r \in Procs |-> Idle]

\* PUT /api/tasks/:id bodies: a new title.
ByIdTaskBodies == {[title |-> <<"b">>]}

\* PUT /api/users/:id bodies: a new username and a new email.
ByIdUserBodies == {[username |-> <<"a">>, email |-> Addr("a")]}

NextById ==
    \E r \in Procs :
        \/ \E id \in TaskIds : GetTaskById(r, id)
        \/ \E id \in TaskIds, body \in ByIdTaskBodies : UpdateTaskBegin(r, id, body)
        \/ UpdateTaskWrite(r)
        \/ \E id \in TaskIds : DeleteTask(r, id)
        \/ \E id \in UserIds : GetUserById(r, id)
        \/ \E id \in UserIds, body \in ByIdUserBodies : UpdateUserAccept(r, id, body)
        \/ UpdateUserGet(r)
        \/ UpdateUserUsername(r)
        \/ UpdateUserEmail(r)
        \/ UpdateUserWrite(r)
        \/ \E id \in UserIds : DeleteUserBegin(r, id)
        \/ DeleteUserCount(r)
        \/ DeleteUserNullify(r)
        \/ DeleteUserDelete(r)
        \/ Respond(r)

ByIdSpec == InitById /\ [][NextById]_vars

(* --------------------------- the WHERE clause -------------------------- *)
\* The text of a condition is a sequence of fragments; a fragment that ends
\* in a placeholder carries its number, the others carry 0.

Placeholder(text, n) == [text |-> text, param |-> n]
Literal(text) == [text |-> text, param |-> 0]

\* A WHERE clause builder that numbers both placeholders of the search
\* condition alike.
buildWhereClauseOneSearchNumber(filters) ==
    LET hasStatus   == ~FalsyStr(filters, "status")
        hasPriority == ~FalsyStr(filters, "priority")
        hasAssignee == Has(filters, "assignedTo")
        hasId       == hasAssignee /\ filters.assignedTo # Unassigned
        hasSearch   == ~FalsyText(filters, "search")
        atPriority  == IF hasStatus THEN 2 ELSE 1
        atAssignee  == IF hasPriority THEN atPriority + 1 ELSE atPriority
        atSearch    == IF hasId THEN atAssignee + 1 ELSE atAssignee
        pattern     == <<"%">> \o filters.search \o <<"%">>
    IN  [conditions |->
            (IF hasStatus THEN <<<<Placeholder("t.status = $", 1)>>>> ELSE <<>>)
            \o (IF hasPriority
                THEN <<<<Placeholder("t.priority = $", atPriority)>>>> ELSE <<>>)
            \o (IF ~hasAssignee THEN <<>>
                ELSE IF hasId THEN <<<<Placeholder("t.assigned_to = $", atAssignee)>>>>
                ELSE <<<<Literal("t.assigned_to IS NULL")>>>>)
            \o (IF hasSearch
                THEN <<<<Placeholder("(t.title ILIKE $", atSearch),
                         Placeholder(" OR t.description ILIKE $", atSearch),
                         Literal(")")>>>>
                ELSE <<>>),
         values |->
            (IF hasStatus THEN <<filters.status>> ELSE <<>>)
            \o (IF hasPriority THEN <<filters.priority>> ELSE <<>>)
            \o (IF hasId THEN <<parseInt(filters.assignedTo)>> ELSE <<>>)
            \o (IF hasSearch THEN <<pattern, pattern>> ELSE <<>>)]

\* buildWhereClause: the conditions joined by AND, and the bound values.
buildWhereClause(filters) ==
    LET hasStatus   == ~FalsyStr(filters, "status")
        hasPriority == ~FalsyStr(filters, "priority")
        hasAssignee == Has(filters, "assignedTo")
        hasId       == hasAssignee /\ filters.assignedTo # Unassigned
        hasSearch   == ~FalsyText(filters, "search")
        atPriority  == IF hasStatus THEN 2 ELSE 1
        atAssignee  == IF hasPriority THEN atPriority + 1 ELSE atPriority
        atSearch    == IF hasId THEN atAssignee + 1 ELSE atAssignee
        pattern     == <<"%">> \o filters.search \o <<"%">>
    IN  [conditions |->
            (IF hasStatus THEN <<<<Placeholder("t.status = $", 1)>>>> ELSE <<>>)
            \o (IF hasPriority
                THEN <<<<Placeholder("t.priority = $", atPriority)>>>> ELSE <<>>)
            \o (IF ~hasAssignee THEN <<>>
                ELSE IF hasId THEN <<<<Placeholder("t.assigned_to = $", atAssignee)>>>>
                ELSE <<<<Literal("t.assigned_to IS NULL")>>>>)
            \o (IF hasSearch
                THEN <<<<Placeholder("(t.title ILIKE $", atSearch),
                         Placeholder(" OR t.description ILIKE $", atSearch + 1),
                         Literal(")")>>>>
                ELSE <<>>),
         values |->
            (IF hasStatus THEN <<filters.status>> ELSE <<>>)
            \o (IF hasPriority THEN <<filters.priority>> ELSE <<>>)
            \o (IF hasId THEN <<parseInt(filters.assignedTo)>> ELSE <<>>)
            \o (IF hasSearch THEN <<pattern, pattern>> ELSE <<>>)]

\* The filters buildWhereClause is applied to: status, priority, assignedTo
\* (validated: 'unassigned' or the digits of an id) and search, each absent
\* or with one of a few values.
WhereFilters ==
    LET Opt(k, vs) == {[x \in {} |-> <<>>]} \cup {(k :> v) : v \in vs}
    IN  {a @@ b @@ c @@ d :
            a \in Opt("status", {"todo", "done", ""}),
            b \in Opt("priority", {"high", "low"}),
            c \in Opt("assignedTo", {Unassigned, <<"1">>, <<"2">>}),
            d \in Opt("search", {<<>>, <<"a">>, <<"_">>})}

\* Handler 1 is about to build the WHERE clause of a list request.
InitWhere ==
    /\ users = SeededUsers
    /\ tasks = <<>>
    /\ nextUserId = MaxUsers + 1
    /\ nextTaskId = 1
    /\ now = 0
    /\ logger = NewLogger
    /\ \E filters \in WhereFilters :
        req = [r \in Procs |->
                IF r = 1
                THEN [pc |-> "buildWhereClause", op |-> "getAllTasks",
                      queryParams |-> filters]
                ELSE Idle]

\* const { whereClause, values } = this.buildWhereClause(queryParams)
BuildWhere(r) ==
    /\ req[r].pc = "buildWhereClause"
    /\ req' = [req EXCEPT ![r] =
           [pc |-> "built", op |-> "getAllTasks", queryParams |-> req[r].queryParams,
            where |-> buildWhereClause(req[r].queryParams)]]
    /\ UNCHANGED <<users, tasks, nextUserId, nextTaskId, now, logger>>

NextWhere == \E r \in Procs : BuildWhere(r)

WhereSpec == InitWhere /\ [][NextWhere]_vars

(* ------------------------- request ids in the log ---------------------- *)

\* The request id of the request handler r serves (the x-request-id header,
\* or a fresh uuid): requests in flight at the same time have different ids.
RequestId(r) == r

\* An event written by handler r that carries requestId.
LogEntry(r, action, requestId) == [by |-> r, action |-> action, requestId |-> requestId]

\* logger.logRequestEvent({ ..., requestId }): the id is passed in.
logRequestEvent(log, r, action, requestId) ==
    [log EXCEPT !.logged = @ \cup {LogEntry(r, action, requestId)}]

\* logger.logEvent({ ... }): requestId: this.requestId
logEvent(log, r, action) ==
    [log EXCEPT !.logged = @ \cup {LogEntry(r, action, log.requestId)}]

\* requestIdMiddleware on a GET /api/users/:id, and the handlers up to the
\* await of the SELECT in UserService.getUserById.
LogRequestStart(r, id) ==
    /\ req[r] = Idle
    /\ logger' = logRequestEvent([logger EXCEPT !.requestId = RequestId(r)],
                                 r, "request_start", RequestId(r))
    /\ req' = [req EXCEPT ![r] = [pc |-> "getUserById_query", op |-> "getUserById", id |-> id]]
    /\ UNCHANGED <<users, tasks, nextUserId, nextTaskId, now>>

\* The SELECT resolves: the service and the controller log the outcome and
\* the response is sent.
LogGetUserById(r) ==
    /\ req[r].pc = "getUserById_query"
    /\ LET found == req[r].id \in DOMAIN users
       IN  /\ logger' = logEvent(logEvent(logger, r, "get_user_by_id"), r,
                            IF found THEN "get_user_by_id_success"
                            ELSE "get_user_by_id_not_found")
           /\ req' = [req EXCEPT ![r] = Done("getUserById", req[r].id,
                          IF found THEN Res(200, "") ELSE Res(404, "User not found"))]
    /\ UNCHANGED <<users, tasks, nextUserId, nextTaskId, now>>

\* res.on("finish"): the end of the request is logged and the logger's
\* request id is cleared.
LogRequestEnd(r) ==
    /\ req[r].pc = "done"
    /\ logger' = [logRequestEvent(logger, r, "request_end", RequestId(r))
                    EXCEPT !.requestId = NULL]
    /\ req' = [req EXCEPT ![r] = Idle]
    /\ UNCHANGED <<users, tasks, nextUserId, nextTaskId, now>>

InitLog ==
    /\ users = [u \in {1} |-> SeededUsers[u]]
    /\ tasks = <<>>
    /\ nextUserId = MaxUsers + 1
    /\ nextTaskId = 1
    /\ now = 0
    /\ logger = NewLogger
    /\ req = [r \in Procs |-> Idle]

NextLog ==
    \E r \in Procs :
        \/ \E id \in UserIds : LogRequestStart(r, id)
        \/ LogGetUserById(r)
        \/ LogRequestEnd(r)

LogSpec == InitLog /\ [][NextLog]_vars

(* ----------------------- status and close time ------------------------- *)

\* The forward, one-step transitions of the status state machine.
StrictTransition(from, to) ==
    <<from, to>> \in {<<"todo", "in-progress">>, <<"in-progress", "done">>}

\* C1: a task's status changes only along todo -> in-progress or
\* in-progress -> done; an update asking for any other status (a skipped step,
\* a step back, the current status) is answered 409 and leaves the status.
C1_StrictStatusTransitions ==
    /\ [][\A t \in DOMAIN tasks \cap DOMAIN tasks' :
            tasks'[t].status # tasks[t].status
                => StrictTransition(tasks[t].status, tasks'[t].status)]_vars
    /\ [][\A r \in Procs :
            (/\ req[r].pc = "updateTask_update"
             /\ req'[r].pc = "done"
             /\ Has(req[r].data, "status")
             /\ req[r].id \in DOMAIN tasks
             /\ ~StrictTransition(tasks[req[r].id].status, req[r].data.status))
                => /\ req'[r].result.code = 409
                   /\ tasks'[req[r].id].status = tasks[req[r].id].status]_vars

\* The row carries a close timestamp.
HasCloseTimestamp(row) == Has(row, "closed_at") /\ row.closed_at # NULL

\* C2: a task has a close timestamp if and only if its status is done.
C2_CloseTimestampIffDone ==
    \A t \in DOMAIN tasks : HasCloseTimestamp(tasks[t]) <=> tasks[t].status = "done"

(* --------------------------- deleting a user --------------------------- *)

\* Handler r takes the step of deleteUser from position pc.
DeleteUserStep(r, pc) == req[r].pc = pc /\ req'[r].pc # pc

\* C3: the statements of a deleteUser(U) that succeeds delete no task, set
\* assigned_to to null on every task assigned to U, and when U's row is gone
\* no task refers to U.
C3_DeleteUserNullifiesTasks ==
    [][\A r \in Procs :
        /\ DeleteUserStep(r, "deleteUser_nullify")
            => /\ DOMAIN tasks' = DOMAIN tasks
               /\ \A t \in DOMAIN tasks :
                    tasks[t].assigned_to = req[r].id => tasks'[t].assigned_to = NULL
        /\ (DeleteUserStep(r, "deleteUser_delete") /\ req'[r].result.code = 204)
            => /\ DOMAIN tasks' = DOMAIN tasks
               /\ \A t \in DOMAIN tasks' : tasks'[t].assigned_to # req[r].id]_vars

\* A deleteUser that found tasks assigned to its user has succeeded, the user
\* is gone and an unassigned task is there.
C3_Witness ==
    \E r \in Procs :
        /\ req[r].pc = "done" /\ req[r].op = "deleteUser"
        /\ req[r].result.code = 204 /\ req[r].taskCount > 0
        /\ req[r].id \notin DOMAIN users
        /\ \E t \in DOMAIN tasks : tasks[t].assigned_to = NULL

\* C4: every task's assigned_to is null or the id of a user that exists.
C4_NoDanglingAssignee ==
    \A t \in DOMAIN tasks :
        tasks[t].assigned_to = NULL \/ tasks[t].assigned_to \in DOMAIN users

\* A task is assigned to U after deleteUser(U) counted (and nullified) U's
\* tasks and before it deletes U's row.
C4_Witness ==
    \E r \in Procs :
        /\ req[r].pc = "deleteUser_delete"
        /\ req[r].id \in DOMAIN users
        /\ \E t \in DOMAIN tasks : tasks[t].assigned_to = req[r].id

\* C5: deleteUser is atomic: no state shows the tasks of U nullified by
\* deleteUser(U) while U's row is still there, whether the DELETE is still to
\* come or has failed.
C5_DeleteUserAtomic ==
    \A r \in Procs :
        (/\ req[r].op = "deleteUser"
         /\ req[r].pc \in {"deleteUser_delete", "done"}
         /\ req[r].taskCount > 0)
            => req[r].id \notin DOMAIN users

(* ----------------------- unique usernames and emails ------------------- *)

\* Handler r takes a step.
Steps(r) == req'[r] # req[r]

\* The username is held by a user other than except.
HeldUsername(username, except) ==
    \E u \in DOMAIN users \ {except} : users[u].username = username

\* The email is held, compared case-insensitively, by a user other than except.
HeldEmail(email, except) ==
    \E u \in DOMAIN users \ {except} : ToLowerCase(users[u].email) = ToLowerCase(email)

\* The body of handler r as supplied (trimmed, the case of its letters kept).
Supplied(r) == TrimUserBody(req[r].body)

UsernameConflict == Res(409, "Username already exists")
EmailConflict == Res(409, "Email already exists")

\* C6: no two distinct users have the same username or the same email.
C6_UniqueUsernameAndEmail ==
    \A u \in DOMAIN users : \A v \in DOMAIN users \ {u} :
        users[u].username # users[v].username /\ users[u].email # users[v].email

\* A handler that passed its duplicate checks is about to write a username or
\* an email that another handler has written in the meantime.
C6_Witness ==
    \E r \in Procs :
        \/ /\ req[r].pc = "createUser_insert"
           /\ UniqueViolation(Data(r), NULL) # ""
        \/ /\ req[r].pc = "updateUser_update"
           /\ req[r].id \in DOMAIN users
           /\ UniqueViolation(ApplySet(users[req[r].id], Data(r)), req[r].id) # ""

\* C7: every step of createUser that finds its username, or its email
\* compared case-insensitively, held by a user, and every step of updateUser
\* that finds the username or email it sets held by a different user, ends the
\* request with the 409 conflict and leaves the users as they are.
C7_DuplicateIsConflict ==
    [][\A r \in Procs : Steps(r) =>
        /\ (req[r].pc = "createUser_username" /\ HeldUsername(Supplied(r).username, NULL))
            => req'[r].pc = "done" /\ req'[r].result = UsernameConflict /\ users' = users
        /\ (req[r].pc = "createUser_email" /\ HeldEmail(Supplied(r).email, NULL))
            => req'[r].pc = "done" /\ req'[r].result = EmailConflict /\ users' = users
        /\ (/\ req[r].pc = "createUser_insert"
            /\ \/ HeldUsername(Supplied(r).username, NULL)
               \/ HeldEmail(Supplied(r).email, NULL))
            => req'[r].pc = "done" /\ req'[r].result \in {UsernameConflict, EmailConflict} /\ users' = users
        /\ (req[r].pc = "updateUser_username" /\ HeldUsername(Supplied(r).username, req[r].id))
            => req'[r].pc = "done" /\ req'[r].result = UsernameConflict /\ users' = users
        /\ (req[r].pc = "updateUser_email" /\ HeldEmail(Supplied(r).email, req[r].id))
            => req'[r].pc = "done" /\ req'[r].result = EmailConflict /\ users' = users
        /\ (/\ req[r].pc = "updateUser_update"
            /\ req[r].id \in DOMAIN users
            /\ \/ Has(req[r].body, "username") /\ HeldUsername(Supplied(r).username, req[r].id)
               \/ Has(req[r].body, "email") /\ HeldEmail(Supplied(r).email, req[r].id))
            => req'[r].pc = "done" /\ req'[r].result \in {UsernameConflict, EmailConflict} /\ users' = users]_vars

\* A duplicate check of createUser or updateUser has found the username or
\* the email held and the request was answered with the conflict.
C7_Witness ==
    \E r \in Procs :
        /\ req[r].pc = "done"
        /\ req[r].op \in {"createUser", "updateUser"}
        /\ req[r].result \in {UsernameConflict, EmailConflict}
        /\ req[r].log \in {"create_user_validation_error", "update_user_validation_error"}

\* The conflict the duplicate checks of createUser report for data.
CreatePrecheck(data) ==
    IF getUserByUsername(data.username) THEN "Username already exists"
    ELSE IF getUserByEmail(data.email) THEN "Email already exists"
    ELSE ""

\* The conflict the duplicate checks of updateUser report for data and user id.
UpdatePrecheck(data, id) ==
    IF UsernameChecked(data, users[id]) /\ getUserByUsername(data.username)
        THEN "Username already exists"
    ELSE IF EmailChecked(data, users[id]) /\ getUserByEmail(data.email)
        THEN "Email already exists"
    ELSE ""

\* C8: a write of createUser or updateUser that the storage layer rejects for
\* a unique constraint, its duplicate checks having passed, is answered with
\* the 409 conflict the duplicate checks give on the same users.
C8_LostRaceIsSameConflict ==
    [][\A r \in Procs : Steps(r) =>
        /\ (req[r].pc = "createUser_insert" /\ CreatePrecheck(Data(r)) # "")
            => req'[r].pc = "done" /\ req'[r].result = Res(409, CreatePrecheck(Data(r)))
        /\ (/\ req[r].pc = "updateUser_update"
            /\ req[r].id \in DOMAIN users
            /\ UpdatePrecheck(Data(r), req[r].id) # "")
            => req'[r].pc = "done" /\ req'[r].result = Res(409, UpdatePrecheck(Data(r), req[r].id))]_vars

\* A write that passed the duplicate checks was rejected by the storage layer
\* and answered with a conflict.
C8_Witness ==
    \E r \in Procs :
        /\ req[r].pc = "done"
        /\ req[r].log = "database_error"
        /\ req[r].result.code = 409

\* Handler r updates user id, and the username and email it supplies (one at
\* least) are the user's own.
OwnUnchanged(r) ==
    /\ req[r].pc \in {"updateUser_get", "updateUser_update"}
    /\ req[r].id \in DOMAIN users
    /\ Has(req[r].body, "username") \/ Has(req[r].body, "email")
    /\ Has(req[r].body, "username") => Data(r).username = users[req[r].id].username
    /\ Has(req[r].body, "email") => Data(r).email = users[req[r].id].email

\* C9: an updateUser supplying the user's own username or email makes no
\* duplicate check on them, and its UPDATE succeeds and keeps them.
C9_OwnValuesAccepted ==
    [][\A r \in Procs : (Steps(r) /\ OwnUnchanged(r)) =>
        /\ req[r].pc = "updateUser_get" => req'[r].pc = "updateUser_update"
        /\ req[r].pc = "updateUser_update"
            => /\ req'[r].pc = "done"
               /\ req'[r].result = Res(200, "")
               /\ users'[req[r].id].username = users[req[r].id].username
               /\ users'[req[r].id].email = users[req[r].id].email]_vars

\* An updateUser supplying the user's own username or email is at its UPDATE.
C9_Witness ==
    \E r \in Procs : req[r].pc = "updateUser_update" /\ OwnUnchanged(r)

(* ------------------------------ status facets -------------------------- *)

\* The filters without their constraint on status.
WithoutStatus(filters) == [k \in DOMAIN filters \ {"status"} |-> filters[k]]

\* The number of tasks that match the filters, the one on status left out,
\* and have the status.
FacetCount(filters, status) ==
    Cardinality({t \in DOMAIN tasks :
        Matches(tasks[t], WithoutStatus(filters)) /\ tasks[t].status = status})

\* C10: the response of the list operation sent at a step carries facets, and
\* the facet count of each status is the number of tasks that match the
\* filters with the status constraint removed and have that status.
C10_StatusFacets ==
    [][\A r \in Procs :
        (/\ req[r].pc = "getAllTasks_queries"
         /\ req'[r].pc = "done"
         /\ tasks' = tasks)
        => /\ Has(req'[r].body, "facets")
           /\ Has(req'[r].body.facets, "status")
           /\ \A s \in validStatuses :
                /\ s \in DOMAIN req'[r].body.facets.status
                /\ req'[r].body.facets.status[s] = FacetCount(req[r].queryParams, s)]_vars

(* ------------------------------- filters ------------------------------- *)

\* The main query of handler r resolves at this step.
MainResolves(r) ==
    /\ req[r].pc = "getAllTasks_queries"
    /\ "main" \in req[r].pending
    /\ \/ req'[r].pc = "done"
       \/ req'[r].pc = "getAllTasks_queries" /\ "main" \notin req'[r].pending

\* The count query of handler r resolves at this step.
CountResolves(r) ==
    /\ req[r].pc = "getAllTasks_queries"
    /\ "count" \in req[r].pending
    /\ \/ req'[r].pc = "done"
       \/ req'[r].pc = "getAllTasks_queries" /\ "count" \notin req'[r].pending

\* The rows and the total handler r holds after its step.
RowsAfter(r) == IF req'[r].pc = "done" THEN req'[r].body.tasks ELSE req'[r].rows
TotalAfter(r) == IF req'[r].pc = "done" THEN req'[r].body.pagination.total ELSE req'[r].total

\* The text contains s, letter case apart.
Contains(text, s) ==
    \E i \in 0..(Len(text) - Len(s)) :
        SubSeq(ToLowerCase(text), i + 1, i + Len(s)) = ToLowerCase(s)

\* The row satisfies every criterion the filters supply.
Satisfies(row, filters) ==
    /\ ~FalsyStr(filters, "status") => row.status = filters.status
    /\ ~FalsyStr(filters, "priority") => row.priority = filters.priority
    /\ Has(filters, "assignedTo") =>
        IF filters.assignedTo = Unassigned
        THEN row.assigned_to = NULL
        ELSE row.assigned_to # NULL /\ row.assigned_to = parseInt(filters.assignedTo).n
    /\ ~FalsyText(filters, "search") =>
        \/ Contains(row.title, filters.search)
        \/ row.description # NullText /\ Contains(row.description, filters.search)

\* C11: every task the main query of getAllTasks returns satisfies each
\* supplied criterion (status, priority, assignee or unassigned, title or
\* description containing the search text case-insensitively), and the total
\* the count query returns is the number of tasks satisfying all of them.
C11_FiltersSatisfied ==
    [][\A r \in Procs :
        /\ MainResolves(r) =>
            \A i \in DOMAIN RowsAfter(r) : Satisfies(RowsAfter(r)[i], req[r].queryParams)
        /\ CountResolves(r) =>
            TotalAfter(r) = Cardinality({t \in DOMAIN tasks :
                                Satisfies(tasks[t], req[r].queryParams)})]_vars

\* The results the main query may return for queryParams on the present tables.
MainResults(queryParams) ==
    {[i \in DOMAIN Paginate(o, queryParams) |-> TaskWithUser(Paginate(o, queryParams)[i])] :
        o \in Orderings(queryParams)}

\* The parameters without a status or priority filter whose value is not of
\* the enumeration.
WithoutUnknownEnums(queryParams) ==
    [k \in {x \in DOMAIN queryParams :
                /\ x = "status" => queryParams[x] \in validStatuses
                /\ x = "priority" => queryParams[x] \in validPriorities} |->
        queryParams[k]]

\* C12: a list request whose status or priority filter is not a member of the
\* enumeration gets the rows and the total of the same request without that
\* filter.
C12_UnknownEnumIgnored ==
    [][\A r \in Procs :
        /\ MainResolves(r) =>
            RowsAfter(r) \in MainResults(WithoutUnknownEnums(req[r].queryParams))
        /\ CountResolves(r) =>
            TotalAfter(r) = CountMatching(WithoutUnknownEnums(req[r].queryParams))]_vars

(* ------------------------ list parameter validation -------------------- *)

\* Handler r accepts a GET /api/tasks at this step.
ListBegins(r) == req[r] = Idle /\ req'[r].op = "getAllTasks"

\* The text is an integer: an optional sign and digits, nothing else.
IsInteger(text) ==
    LET digits == IF text # <<>> /\ Head(text) \in {"-", "+"} THEN Tail(text) ELSE text
    IN  digits # <<>> /\ \A i \in DOMAIN digits : digits[i] \in Digits

\* The request of handler r ends at this step with the 400 error.
RejectedWith(r, error) ==
    req'[r].pc = "done" /\ req'[r].result = Res(400, error)

\* C13: a list request with a limit outside 1..100, an offset below 0, or an
\* assignedTo that is neither 'unassigned' nor an integer ends with the 400
\* validation error of that parameter before any task query is sent.
C13_BadListParameterRejected ==
    [][\A r \in Procs : ListBegins(r) =>
        LET queryParams == req'[r].queryParams
        IN  /\ (/\ Has(queryParams, "assignedTo")
                /\ queryParams.assignedTo # Unassigned
                /\ ~IsInteger(queryParams.assignedTo))
                    => RejectedWith(r, "Invalid assignedTo parameter")
            /\ (/\ Has(queryParams, "limit")
                /\ ~queryParams.limit.nan
                /\ queryParams.limit.n \notin 1..100)
                    => \/ RejectedWith(r, "Invalid limit parameter")
                       \/ RejectedWith(r, "Invalid assignedTo parameter")
            /\ (/\ Has(queryParams, "offset")
                /\ ~queryParams.offset.nan
                /\ queryParams.offset.n < 0)
                    => \/ RejectedWith(r, "Invalid offset parameter")
                       \/ RejectedWith(r, "Invalid limit parameter")
                       \/ RejectedWith(r, "Invalid assignedTo parameter")]_vars

(* ------------------------------ empty search --------------------------- *)

WithoutSearch(queryParams) ==
    [k \in DOMAIN queryParams \ {"search"} |-> queryParams[k]]

\* Handler r serves a list request whose search parameter is the empty text.
EmptySearch(r) ==
    /\ req[r].op = "getAllTasks"
    /\ Has(req[r].queryParams, "search")
    /\ req[r].queryParams.search = <<>>

\* C14: a list request with search = '' gets the rows and the total of the
\* request with the same other parameters and no search parameter.
C14_EmptySearchIsNoSearch ==
    [][\A r \in Procs : (req[r].pc = "getAllTasks_queries" /\ EmptySearch(r)) =>
        /\ MainResolves(r) =>
            RowsAfter(r) \in MainResults(WithoutSearch(req[r].queryParams))
        /\ CountResolves(r) =>
            TotalAfter(r) = CountMatching(WithoutSearch(req[r].queryParams))]_vars

\* A list request with search = '' was answered with tasks.
C14_Witness ==
    \E r \in Procs :
        /\ req[r].pc = "done"
        /\ EmptySearch(r)
        /\ req[r].result.code = 200
        /\ req[r].body.tasks # <<>>
        /\ req[r].body.pagination.total > 0

(* -------------------------------- sorting ------------------------------ *)

\* The rows come in descending (ascending) order of created_at.
CreatedDescending(rows) ==
    \A i \in DOMAIN rows : \A j \in DOMAIN rows :
        i < j => rows[i].created_at >= rows[j].created_at
CreatedAscending(rows) ==
    \A i \in DOMAIN rows : \A j \in DOMAIN rows :
        i < j => rows[i].created_at <= rows[j].created_at

\* The rows come in descending order of the column.
Descending(rows, field) ==
    \A i \in DOMAIN rows : \A j \in DOMAIN rows :
        i < j => ~SortsBefore(rows[i], rows[j], field)

\* The request names no sort field of the allow-list.
NoValidSortBy(queryParams) ==
    ~Has(queryParams, "sortBy") \/ queryParams.sortBy \notin validSortFields

\* The request names no sort direction among asc and desc.
NoValidSortOrder(queryParams) ==
    ~Has(queryParams, "sortOrder") \/ queryParams.sortOrder \notin {"asc", "desc"}

\* C15: the main query of a list request whose sortBy is absent or outside
\* the allow-list returns its rows ordered by created_at (descending unless
\* sortOrder is asc); one whose sortOrder is neither asc nor desc returns them
\* in descending order of its sort field; the sort field is of the allow-list
\* and the request is not answered with an error.
C15_SortFallback ==
    [][\A r \in Procs : MainResolves(r) =>
        LET queryParams == req[r].queryParams
            rows == RowsAfter(r)
        IN  /\ OrderField(queryParams) \in validSortFields
            /\ NoValidSortBy(queryParams) =>
                /\ OrderField(queryParams) = "created_at"
                /\ IF Has(queryParams, "sortOrder") /\ queryParams.sortOrder = "asc"
                   THEN CreatedAscending(rows)
                   ELSE CreatedDescending(rows)
            /\ NoValidSortOrder(queryParams) =>
                Descending(rows, OrderField(queryParams))
            /\ req'[r].pc = "done" => req'[r].result.code = 200]_vars

\* A list request with a sortBy outside the allow-list was answered with two
\* tasks created at different times.
C15_Witness ==
    \E r \in Procs :
        /\ req[r].pc = "done"
        /\ req[r].op = "getAllTasks"
        /\ req[r].result.code = 200
        /\ Has(req[r].queryParams, "sortBy")
        /\ req[r].queryParams.sortBy \notin validSortFields
        /\ Len(req[r].body.tasks) = 2
        /\ req[r].body.tasks[1].created_at # req[r].body.tasks[2].created_at

(* ------------------------------ pagination ----------------------------- *)

\* The offset of a list request (0 when none is supplied).
OffsetOf(queryParams) ==
    IF Has(queryParams, "offset") /\ ~queryParams.offset.nan
    THEN queryParams.offset.n
    ELSE 0

\* C16: with T tasks matching the filters and an offset of T or more, the
\* main query returns no row, the count query returns T, and the response
\* built from no rows and that total has hasMore = false and status 200.
C16_OffsetBeyondTotal ==
    [][\A r \in Procs :
        /\ (MainResolves(r) /\ OffsetOf(req[r].queryParams) >= CountMatching(req[r].queryParams))
            => RowsAfter(r) = <<>>
        /\ CountResolves(r) => TotalAfter(r) = CountMatching(req[r].queryParams)
        /\ (/\ req[r].pc = "getAllTasks_queries"
            /\ req'[r].pc = "done"
            /\ req'[r].body.tasks = <<>>
            /\ OffsetOf(req[r].queryParams) >= req'[r].body.pagination.total)
            => /\ req'[r].result.code = 200
               /\ req'[r].body.pagination.hasMore = FALSE]_vars

\* A list request with a limit and an offset at or beyond the total of
\* matching tasks was answered, and tasks did match.
C16_Witness ==
    \E r \in Procs :
        /\ req[r].pc = "done"
        /\ req[r].op = "getAllTasks"
        /\ req[r].result.code = 200
        /\ HasLimitClause(req[r].queryParams)
        /\ req[r].body.pagination.total > 0
        /\ OffsetOf(req[r].queryParams) >= req[r].body.pagination.total
        /\ req[r].body.tasks = <<>>
        /\ req[r].body.pagination.total = CountMatching(req[r].queryParams)

\* C17: in every list response, hasMore is true exactly when offset + count
\* is less than total, with or without a limit.
C17_HasMoreFromTotals ==
    \A r \in Procs :
        (req[r].pc = "done" /\ req[r].op = "getAllTasks" /\ req[r].result.code = 200)
            => LET p == req[r].body.pagination
               IN  p.hasMore <=> (p.offset + p.count < p.total)

\* C18: every list request that queries the tasks does so with a page size
\* in 1..100 (the supplied limit clamped, a default when none is supplied),
\* and no list response holds more than 100 tasks.
C18_PageSizeBounded ==
    \A r \in Procs :
        /\ req[r].pc = "getAllTasks_queries"
            => /\ HasLimitClause(req[r].queryParams)
               /\ LimitClause(req[r].queryParams) \in 1..100
        /\ (req[r].pc = "done" /\ req[r].op = "getAllTasks" /\ req[r].result.code = 200)
            => Len(req[r].body.tasks) <= 100

(* ---------------------------- partial updates -------------------------- *)

\* The UPDATE of handler r's updateTask (updateUser) succeeds at this step.
TaskUpdated(r) ==
    /\ req[r].pc = "updateTask_update"
    /\ req'[r].pc = "done"
    /\ req'[r].result.code = 200
UserUpdated(r) ==
    /\ req[r].pc = "updateUser_update"
    /\ req'[r].pc = "done"
    /\ req'[r].result.code = 200

\* Every field of the row outside `supplied` and the update timestamp keeps
\* its value.
OtherFieldsKept(before, after, supplied) ==
    /\ DOMAIN after = DOMAIN before
    /\ \A k \in DOMAIN before \ (supplied \cup {"updated_at"}) : after[k] = before[k]

\* C19: a successful updateTask or updateUser changes, of its row, only
\* fields the request supplies (and possibly the update timestamp), and
\* changes no other task and no other user.
C19_OnlySuppliedFieldsChange ==
    [][\A r \in Procs :
        /\ TaskUpdated(r) =>
            /\ DOMAIN tasks' = DOMAIN tasks
            /\ OtherFieldsKept(tasks[req[r].id], tasks'[req[r].id], DOMAIN req[r].data)
            /\ \A t \in DOMAIN tasks \ {req[r].id} : tasks'[t] = tasks[t]
            /\ users' = users
        /\ UserUpdated(r) =>
            /\ DOMAIN users' = DOMAIN users
            /\ OtherFieldsKept(users[req[r].id], users'[req[r].id], DOMAIN req[r].body)
            /\ \A u \in DOMAIN users \ {req[r].id} : users'[u] = users[u]
            /\ tasks' = tasks]_vars

\* An updateTask and an updateUser have succeeded, each on a row that has a
\* field the request did not supply.
C19_Witness ==
    \E r \in Procs : \E q \in Procs :
        /\ req[r].pc = "done" /\ req[r].op = "updateTask" /\ req[r].result.code = 200
        /\ req[q].pc = "done" /\ req[q].op = "updateUser" /\ req[q].result.code = 200
        /\ req[r].id \in DOMAIN tasks /\ tasks[req[r].id].description # <<>>
        /\ req[q].id \in DOMAIN users /\ users[req[q].id].full_name # <<>>

(* --------------------------- no fields to update ----------------------- *)

TaskFields == {"title", "description", "status", "priority", "due_date", "assigned_to"}
UserFields == {"username", "email", "full_name"}

\* The request of handler r ends at this step with 'No fields to update'.
NoFieldsRejected(r) ==
    req'[r].pc = "done" /\ req'[r].result = Res(400, "No fields to update")

\* C20: an update of a task or of a user is answered 'No fields to update',
\* the tables unchanged, exactly when its body supplies none of the updatable
\* fields; later steps of an accepted update never give that answer.
C20_NoFieldsExactlyWhenNone ==
    [][\A r \in Procs :
        /\ \A id \in TaskIds : \A body \in PutTaskBodies :
            UpdateTaskBegin(r, id, body) =>
                (NoFieldsRejected(r) <=> DOMAIN body \cap TaskFields = {})
        /\ \A id \in UserIds : \A body \in PutUserBodies :
            UpdateUserAccept(r, id, body) =>
                (NoFieldsRejected(r) <=> DOMAIN body \cap UserFields = {})
        /\ (req[r].pc \in {"updateTask_update", "updateUser_get", "updateUser_username",
                           "updateUser_email", "updateUser_update"} /\ Steps(r))
            => ~NoFieldsRejected(r)
        /\ (Steps(r) /\ NoFieldsRejected(r)) => (tasks' = tasks /\ users' = users)]_vars

(* ---------------------------- repeated updates ------------------------- *)

\* The row holds, in every field the update supplies, the value it supplies:
\* the update has been applied to it.
Applied(row, data) == \A k \in DOMAIN data : row[k] = data[k]

\* C21: an update of a task or of a user whose row already holds the values
\* of an earlier application of the same update succeeds without an error
\* (updateUser makes no duplicate check on the user's own values) and leaves
\* every field of the row, and every other row, as it was.
C21_RepeatedUpdateKeepsRow ==
    [][\A r \in Procs : Steps(r) =>
        /\ (/\ req[r].pc = "updateTask_update"
            /\ req[r].id \in DOMAIN tasks
            /\ Applied(tasks[req[r].id], req[r].data))
            => /\ req'[r].pc = "done"
               /\ req'[r].result = Res(200, "")
               /\ tasks' = tasks /\ users' = users
        /\ (/\ req[r].pc = "updateUser_get"
            /\ req[r].id \in DOMAIN users
            /\ Applied(users[req[r].id], Data(r)))
            => req'[r].pc = "updateUser_update"
        /\ (/\ req[r].pc = "updateUser_update"
            /\ req[r].id \in DOMAIN users
            /\ Applied(users[req[r].id], Data(r)))
            => /\ req'[r].pc = "done"
               /\ req'[r].result = Res(200, "")
               /\ tasks' = tasks /\ users' = users]_vars

\* Two updates of the same user have succeeded and the user has the username
\* and email of the two-field update but not the full name of the one-field
\* update: the two-field update was applied twice.
C21_Witness ==
    /\ \A r \in Procs :
        /\ req[r].pc = "done" /\ req[r].op = "updateUser"
        /\ req[r].result = Res(200, "")
        /\ req[r].id = req[1].id
    /\ req[1].id \in DOMAIN users
    /\ users[req[1].id].username = <<"a">>
    /\ users[req[1].id].email = Addr("a")
    /\ users[req[1].id].full_name # <<"n">>

(* --------------------------- invalid assigned user --------------------- *)

\* The body names an assignee that is no user.
NoSuchAssignee(body) ==
    /\ Has(body, "assigned_to")
    /\ body.assigned_to # NULL
    /\ body.assigned_to \notin DOMAIN users

InvalidAssignedUser == Res(400, "Invalid assigned user")

TaskNotFound == Res(404, "Task not found")
UserNotFound == Res(404, "User not found")

\* The request of handler r ends at this step with the result, and the step
\* changes no user and no task.
EndsUnchanged(r, result) ==
    /\ req'[r].pc = "done"
    /\ req'[r].result = result
    /\ users' = users
    /\ tasks' = tasks

BadEnum(body) ==
    \/ Has(body, "status") /\ body.status \notin validStatuses
    \/ Has(body, "priority") /\ body.priority \notin validPriorities

\* The validation error of a status or priority outside the enumeration.
EnumError(body) ==
    IF Has(body, "status") /\ body.status \notin validStatuses
    THEN Res(400, "Invalid status")
    ELSE Res(400, "Invalid priority")

\* C24: every stored task has its status in {todo, in-progress, done} and its
\* priority in {low, medium, high}; a create or update request carrying any
\* other status or priority is answered with the 400 validation error of that
\* field and stores nothing.
C24_StatusAndPriorityInEnum ==
    /\ [](\A t \in DOMAIN tasks :
            tasks[t].status \in validStatuses /\ tasks[t].priority \in validPriorities)
    /\ [][\A r \in Procs :
            /\ \A body \in CreateTaskBodies :
                (CreateTask(r, body) /\ BadEnum(body))
                    => /\ req'[r].pc = "done"
                       /\ req'[r].result = EnumError(body)
                       /\ tasks' = tasks
            /\ \A id \in TaskIds : \A body \in UpdateTaskBodies :
                (UpdateTaskBegin(r, id, body) /\ BadEnum(body))
                    => /\ req'[r].pc = "done"
                       /\ req'[r].result = EnumError(body)
                       /\ tasks' = tasks]_vars

\* A createTask was refused for its status and an updateTask of an existing
\* task for its priority.
C24_Witness ==
    \E r \in Procs : \E q \in Procs :
        /\ req[r].pc = "done" /\ req[r].op = "createTask"
        /\ req[r].result = Res(400, "Invalid status")
        /\ req[q].pc = "done" /\ req[q].op = "updateTask"
        /\ req[q].result = Res(400, "Invalid priority")
        /\ req[q].id \in DOMAIN tasks

(* ------------------------------- timestamps ---------------------------- *)

\* The row keeps its creation time and its update time does not go back.
TimestampsKept(before, after) ==
    /\ after.created_at = before.created_at
    /\ after.updated_at >= before.updated_at

\* The update time of the row moves forward when the clock has moved since
\* the row was last written.
UpdateTimeMoves(before, after) ==
    now > before.updated_at => after.updated_at > before.updated_at

\* C25: created_at of a task or user never changes and updated_at never goes
\* back; every successful updateTask and updateUser, and every step that
\* changes a row (the nullification of deleteUser included), moves the row's
\* updated_at forward.
C25_Timestamps ==
    [][/\ \A t \in DOMAIN tasks \cap DOMAIN tasks' :
            /\ TimestampsKept(tasks[t], tasks'[t])
            /\ tasks'[t] # tasks[t] => UpdateTimeMoves(tasks[t], tasks'[t])
       /\ \A u \in DOMAIN users \cap DOMAIN users' :
            /\ TimestampsKept(users[u], users'[u])
            /\ users'[u] # users[u] => UpdateTimeMoves(users[u], users'[u])
       /\ \A r \in Procs :
            /\ TaskUpdated(r) => UpdateTimeMoves(tasks[req[r].id], tasks'[req[r].id])
            /\ UserUpdated(r) => UpdateTimeMoves(users[req[r].id], users'[req[r].id])]_vars

(* ------------------------------ placeholders --------------------------- *)

RECURSIVE Flatten(_)
\* The fragments of the conditions, in the order of the clause.
Flatten(conditions) ==
    IF conditions = <<>> THEN <<>> ELSE Head(conditions) \o Flatten(Tail(conditions))

\* The numbers of the placeholders of the clause, in the order of the clause.
ParamsInOrder(conditions) ==
    LET fragments == Flatten(conditions)
        IsParam(fragment) == fragment.param # 0
    IN  [i \in DOMAIN SelectSeq(fragments, IsParam) |->
            SelectSeq(fragments, IsParam)[i].param]

\* The value of the filters the column of a placeholder is compared with.
ValueFor(text, filters) ==
    CASE text = "t.status = $" -> filters.status
      [] text = "t.priority = $" -> filters.priority
      [] text = "t.assigned_to = $" -> parseInt(filters.assignedTo)
      [] OTHER -> <<"%">> \o filters.search \o <<"%">>

\* Which filters are supplied, whatever their values ('unassigned' apart).
Shape(filters) ==
    <<~FalsyStr(filters, "status"), ~FalsyStr(filters, "priority"),
      Has(filters, "assignedTo"),
      Has(filters, "assignedTo") /\ filters.assignedTo = Unassigned,
      ~FalsyText(filters, "search")>>

\* C26: the clause buildWhereClause builds has its placeholders numbered
\* $1..$n in the order of the clause, n the number of bound values; the i-th
\* value is the filter value the i-th placeholder's column is compared with;
\* and the text of the clause is the same for all filters that supply the
\* same criteria, whatever their values.
C26_PlaceholdersMatchValues ==
    \A r \in Procs : req[r].pc = "built" =>
        LET filters == req[r].queryParams
            where   == req[r].where
            n       == Len(where.values)
        IN  /\ ParamsInOrder(where.conditions) = [i \in 1..n |-> i]
            /\ \A c \in DOMAIN where.conditions : \A i \in DOMAIN where.conditions[c] :
                    where.conditions[c][i].param # 0 =>
                        where.values[where.conditions[c][i].param]
                            = ValueFor(where.conditions[c][i].text, filters)
            /\ \A other \in WhereFilters :
                    Shape(other) = Shape(filters)
                        => buildWhereClause(other).conditions = where.conditions

\* The clause of a request with a status, a priority, an assignee id and a
\* search text was built: four conditions and five values.
C26_Witness ==
    \E r \in Procs :
        /\ req[r].pc = "built"
        /\ Len(req[r].where.conditions) = 4
        /\ Len(req[r].where.values) = 5
        /\ req[r].queryParams.assignedTo # Unassigned

(* --------------------------- request ids in events --------------------- *)

\* C27: every event a request's handlers write to the log carries the
\* request id of that request, also while another request is in flight.
C27_LogCarriesOwnRequestId ==
    \A e \in logger.logged : e.requestId = RequestId(e.by)

(* ------------------------- rows and total of a page -------------------- *)

\* C28: in every list response that returns tasks, offset + count is at most
\* total, also when a task is created or deleted between the list query and
\* the count query of the request.
C28_PageWithinTotal ==
    \A r \in Procs :
        (req[r].pc = "done" /\ req[r].op = "getAllTasks" /\ req[r].result.code = 200)
            => LET p == req[r].body.pagination
               IN  p.count > 0 => p.offset + p.count <= p.total

(* ------------------------ update against delete ----------------------- *)

\* Handler r sends the UPDATE of its updateTask (updateUser) at this step,
\* and the row it passed its existence check on is gone.
TaskGoneAtUpdate(r) ==
    /\ Steps(r)
    /\ req[r].pc = "updateTask_update"
    /\ req[r].id \notin DOMAIN tasks
UserGoneAtUpdate(r) ==
    /\ Steps(r)
    /\ req[r].pc = "updateUser_update"
    /\ req[r].id \notin DOMAIN users

\* C29: the UPDATE of an updateTask or updateUser whose row was deleted after
\* its existence check is answered 404 not found, not recreating the row and
\* changing no task and no user.
C29_UpdateAfterDelete ==
    [][\A r \in Procs :
        /\ TaskGoneAtUpdate(r) => EndsUnchanged(r, TaskNotFound)
        /\ UserGoneAtUpdate(r) => EndsUnchanged(r, UserNotFound)]_vars

\* An updateTask and an updateUser that had found their rows were answered
\* not found: the rows were deleted before their UPDATE.
C29_Witness ==
    \E r \in Procs : \E q \in Procs :
        /\ req[r].pc = "done" /\ req[r].op = "updateTask"
        /\ req[r].result = TaskNotFound
        /\ req[q].pc = "done" /\ req[q].op = "updateUser"
        /\ req[q].result = UserNotFound
        /\ req[q].log = "update_user"
        /\ req[r].id \notin DOMAIN tasks
        /\ req[q].id \notin DOMAIN users

\* Task t is the same in every column but assigned_to.
SameButAssignee(t) ==
    \A f \in DOMAIN tasks[t] \ {"assigned_to"} : tasks'[t][f] = tasks[t][f]

\* The tasks table keeps its rows, and changes only the assigned_to of the
\* tasks of user id, to null.
OnlyUnassigns(id) ==
    /\ DOMAIN tasks' = DOMAIN tasks
    /\ \A t \in DOMAIN tasks :
        IF tasks[t].assigned_to = id
        THEN tasks'[t].assigned_to \in {NULL, id} /\ SameButAssignee(t)
        ELSE tasks'[t] = tasks[t]

\* The users table loses at most row id and keeps every other row as it was.
OnlyRemovesUser(id) ==
    /\ DOMAIN users \ {id} \subseteq DOMAIN users'
    /\ DOMAIN users' \subseteq DOMAIN users
    /\ \A u \in DOMAIN users' : users'[u] = users[u]

\* The tasks table loses at most row id and keeps every other row as it was.
OnlyRemovesTask(id) ==
    /\ DOMAIN tasks \ {id} \subseteq DOMAIN tasks'
    /\ DOMAIN tasks' \subseteq DOMAIN tasks
    /\ \A t \in DOMAIN tasks' : tasks'[t] = tasks[t]

\* C30: every step of deleteUser(U) leaves every user but U as it was, removes
\* no task, and changes no task except for setting assigned_to to null on the
\* tasks that referenced U, whose other columns it keeps; deleteTask(X)
\* removes only X and leaves every other task and every user as they were.
C30_DeleteFrame ==
    [][\A r \in Procs :
        /\ (Steps(r) /\ req[r] # Idle /\ req[r].op = "deleteUser" /\ req[r].pc # "done")
            => OnlyRemovesUser(req[r].id) /\ OnlyUnassigns(req[r].id)
        /\ \A id \in TaskIds :
            DeleteTask(r, id) => OnlyRemovesTask(id) /\ users' = users]_vars

\* A deleteUser(U) that found tasks of U has succeeded and a deleteTask has
\* succeeded, while a task assigned to another user, and that user, are there.
C30_Witness ==
    \E r, q \in Procs :
        /\ req[r].pc = "done" /\ req[r].op = "deleteUser"
        /\ req[r].result.code = 204 /\ req[r].taskCount > 0
        /\ req[r].id \notin DOMAIN users
        /\ req[q].pc = "done" /\ req[q].op = "deleteTask"
        /\ req[q].result.code = 204 /\ req[q].id \notin DOMAIN tasks
        /\ \E t \in DOMAIN tasks :
            tasks[t].assigned_to \in DOMAIN users \ {req[r].id}

====
